---- MODULE Spec2Model ----
(***************************************************************************)
(* Model of the zod-n-json conversion engine (converter.ts and             *)
(* jsonc-parser.ts) and of the App component that drives it.               *)
(*                                                                         *)
(* Texts are TLA+ strings handled one character at a time, as the code     *)
(* does.  JavaScript values are tagged records; an object is the sequence  *)
(* of its own enumerable entries in Object.entries order.                  *)
(***************************************************************************)
EXTENDS Integers, Sequences, FiniteSets, TLC

VARIABLES
    \* round trip: model node -> document text -> value read back -> source
    schema, includeComments, jsonOutput, parsed, zodCode, rtPc,
    \* comment-aware reader: a document (its tokens), the tokens after the
    \* author's edits and how many edits of each kind were made, the text
    \* handed to parseJsonc, and what parseJsonc makes of both texts
    document, edited, edits, source, result, baseline, rdPc,
    \* source-to-model extractor: the source text in the editor, what
    \* parseZodCode returns for it, and what handleConvert shows
    zodSource, extracted, targetCode, error, exPc,
    \* document-to-source direction of the App: the document in the editor,
    \* the comment its author wrote into it, what parseJsonc and jsonToZod
    \* make of it, and what handleConvert shows
    jsonSource, note, decoded, rendered, jsonTarget, jsonError, jzPc,
    \* the App component: the direction of conversion and the text in the
    \* source editor (includeComments, targetCode and error are the fields
    \* above), the handler that ran last and the fields as they were before it
    direction, sourceCode, lastOp, prior,
    \* the loop of formatZodCode: the text it is given, its local variables
    \* and position, and these before the last iteration
    formatInput, formatState, formatPrior

rtVars == <<schema, includeComments, jsonOutput, parsed, zodCode, rtPc>>
rdVars == <<document, edited, edits, source, result, baseline, rdPc>>
exVars == <<zodSource, extracted, targetCode, error, exPc>>
jzVars == <<jsonSource, note, decoded, rendered, jsonTarget, jsonError, jzPc>>
apVars == <<direction, sourceCode, lastOp, prior>>
fmVars == <<formatInput, formatState, formatPrior>>
vars == <<rtVars, rdVars, exVars, jzVars, apVars, fmVars>>

-----------------------------------------------------------------------------
(* Characters and strings *)

\* s[i] of JavaScript with i counted from 1; "" stands for undefined
At(s, i) == IF 1 <= i /\ i <= Len(s) THEN SubSeq(s, i, i) ELSE ""

\* s.substring(i - 1) of JavaScript: the text from position i on
From(s, i) == IF i > Len(s) THEN "" ELSE SubSeq(s, i, Len(s))

Min(a, b) == IF a < b THEN a ELSE b
Max(a, b) == IF a > b THEN a ELSE b

\* s.startsWith(t, i - 1)
StartsAt(s, t, i) == i + Len(t) - 1 <= Len(s) /\ SubSeq(s, i, i + Len(t) - 1) = t

\* the least element of a set of positions, 0 for the empty set
FirstOf(positions) ==
    IF positions = {} THEN 0
    ELSE CHOOSE k \in positions : \A j \in positions : k <= j

\* s.indexOf(t, i - 1) + 1: the first position >= i where t occurs in s, 0
\* when there is none
IndexFrom(s, t, i) ==
    FirstOf({k \in i..(Len(s) - Len(t) + 1) : SubSeq(s, k, k + Len(t) - 1) = t})

\* s.includes(t)
Includes(s, t) == IndexFrom(s, t, 1) # 0

LowerChars == {"a","b","c","d","e","f","g","h","i","j","k","l","m",
               "n","o","p","q","r","s","t","u","v","w","x","y","z"}
UpperChars == {"A","B","C","D","E","F","G","H","I","J","K","L","M",
               "N","O","P","Q","R","S","T","U","V","W","X","Y","Z"}
DigitChars == {"0","1","2","3","4","5","6","7","8","9"}

\* \w of a JavaScript regular expression
WordChars == LowerChars \cup UpperChars \cup DigitChars \cup {"_"}
\* [a-zA-Z0-9_$]
NameChars == WordChars \cup {"$"}
\* \s of a JavaScript regular expression (the ASCII part)
SpaceChars == {" ", "\t", "\n", "\r", "\f"}
\* the characters . does not match
LineTerminators == {"\n", "\r"}
\* whitespace of the JSON grammar
JsonSpace == {" ", "\t", "\n", "\r"}

RECURSIVE SkipTo(_, _, _)
\* the first position >= i of s whose character is in set (Len(s)+1 when
\* there is none)
SkipTo(s, i, set) ==
    IF i > Len(s) THEN Len(s) + 1
    ELSE IF At(s, i) \in set THEN i
    ELSE IF At(s, i + 1) \in set THEN i + 1
    ELSE IF At(s, i + 2) \in set THEN i + 2
    ELSE IF At(s, i + 3) \in set THEN i + 3
    ELSE IF At(s, i + 4) \in set THEN i + 4
    ELSE IF At(s, i + 5) \in set THEN i + 5
    ELSE SkipTo(s, i + 6, set)

RECURSIVE SkipIn(_, _, _)
\* the first position >= i of s whose character is not in set (Len(s)+1 at the end)
SkipIn(s, i, set) ==
    IF i <= Len(s) /\ At(s, i) \in set THEN SkipIn(s, i + 1, set) ELSE i

RECURSIVE Repeat(_, _)
\* s.repeat(n)
Repeat(s, n) == IF n <= 0 THEN "" ELSE s \o Repeat(s, n - 1)

RECURSIVE Loop(_, _, _)
\* a loop over the characters of s: Step is one iteration, st.i the position
\* it is at (from 1), and the loop ends when st.i is past the end of s; Step
\* leaves such a state as it is, so taking eight iterations at a time only
\* keeps the evaluation shallow
Loop(Step(_, _), s, st) ==
    IF st.i > Len(s) THEN st
    ELSE Loop(Step, s,
              Step(s, Step(s, Step(s, Step(s,
              Step(s, Step(s, Step(s, Step(s, st)))))))))

DigitOf(c) ==
    CASE c = "0" -> 0 [] c = "1" -> 1 [] c = "2" -> 2 [] c = "3" -> 3
      [] c = "4" -> 4 [] c = "5" -> 5 [] c = "6" -> 6 [] c = "7" -> 7
      [] c = "8" -> 8 [] c = "9" -> 9

CharOf(d) ==
    CASE d = 0 -> "0" [] d = 1 -> "1" [] d = 2 -> "2" [] d = 3 -> "3"
      [] d = 4 -> "4" [] d = 5 -> "5" [] d = 6 -> "6" [] d = 7 -> "7"
      [] d = 8 -> "8" [] d = 9 -> "9"

RECURSIVE NatToString(_)
NatToString(n) ==
    IF n < 10 THEN CharOf(n) ELSE NatToString(n \div 10) \o CharOf(n % 10)

\* String(n) for an integer n
IntToString(n) == IF n < 0 THEN "-" \o NatToString(0 - n) ELSE NatToString(n)

RECURSIVE DigitsValue(_, _, _, _)
\* the value of the decimal digits s[i..j]
DigitsValue(s, i, j, acc) ==
    IF i > j THEN acc ELSE DigitsValue(s, i + 1, j, acc * 10 + DigitOf(At(s, i)))

-----------------------------------------------------------------------------
(* JavaScript values *)

Undefined == [t |-> "undefined"]
Null == [t |-> "null"]
Str(s) == [t |-> "string", str |-> s]
Num(n) == [t |-> "number", num |-> n]
Bool(b) == [t |-> "boolean", bool |-> b]
Arr(items) == [t |-> "array", items |-> items]
Obj(entries) == [t |-> "object", entries |-> entries]

IsStr(x) == x.t = "string"
IsArr(x) == x.t = "array"
IsObj(x) == x.t = "object"

\* ToBoolean(x)
Truthy(x) ==
    CASE x.t = "undefined" -> FALSE
      [] x.t = "null" -> FALSE
      [] x.t = "string" -> x.str # ""
      [] x.t = "number" -> x.num # 0
      [] x.t = "boolean" -> x.bool
      [] OTHER -> TRUE

\* a canonical array index: Object.entries lists such keys first, ascending
IsIndexKey(k) ==
    /\ Len(k) >= 1
    /\ \A i \in 1..Len(k) : At(k, i) \in DigitChars
    /\ (Len(k) > 1 => At(k, 1) # "0")

IndexValue(k) == DigitsValue(k, 1, Len(k), 0)

HasKey(entries, k) == \E i \in 1..Len(entries) : entries[i][1] = k

\* entries after the assignment obj[k] = v
Put(entries, k, v) ==
    IF HasKey(entries, k)
    THEN [i \in 1..Len(entries) |->
            IF entries[i][1] = k THEN <<k, v>> ELSE entries[i]]
    ELSE IF IsIndexKey(k)
    THEN LET before == SelectSeq(entries, LAMBDA e :
                           IsIndexKey(e[1]) /\ IndexValue(e[1]) < IndexValue(k))
             after == SelectSeq(entries, LAMBDA e :
                           ~(IsIndexKey(e[1]) /\ IndexValue(e[1]) < IndexValue(k)))
         IN  before \o <<<<k, v>>>> \o after
    ELSE Append(entries, <<k, v>>)

\* x[k] for a property name k (x.length of a string or array included)
Get(x, k) ==
    IF IsObj(x)
    THEN IF HasKey(x.entries, k)
         THEN x.entries[CHOOSE i \in 1..Len(x.entries) : x.entries[i][1] = k][2]
         ELSE Undefined
    ELSE IF k = "length" /\ (IsArr(x) \/ IsStr(x)) THEN Num(Len(IF IsArr(x) THEN x.items ELSE x.str))
    ELSE Undefined

\* Object.entries(x)
Entries(x) ==
    CASE IsObj(x) -> x.entries
      [] IsArr(x) -> [i \in 1..Len(x.items) |-> <<IntToString(i - 1), x.items[i]>>]
      [] IsStr(x) -> [i \in 1..Len(x.str) |-> <<IntToString(i - 1), Str(At(x.str, i))>>]
      [] OTHER -> <<>>

-----------------------------------------------------------------------------
(* JSON.stringify *)

\* the quoted form of one character of a string
QuoteChar(c) ==
    CASE c = "\"" -> "\\\""
      [] c = "\\" -> "\\\\"
      [] c = "\n" -> "\\n"
      [] c = "\r" -> "\\r"
      [] c = "\t" -> "\\t"
      [] c = "\f" -> "\\f"
      [] OTHER -> c

\* the quoted text grows by the character at position st.i
QuoteFrom(s, st) ==
    IF st.i > Len(s) THEN st
    ELSE [i |-> st.i + 1, out |-> st.out \o QuoteChar(At(s, st.i))]

\* JSON.stringify(s) for a string s
QuoteJSONString(s) ==
    "\"" \o Loop(QuoteFrom, s, [i |-> 1, out |-> ""]).out \o "\""

RECURSIVE JoinWith(_, _)
\* parts.join(sep)
JoinWith(parts, sep) ==
    IF Len(parts) = 0 THEN ""
    ELSE IF Len(parts) = 1 THEN parts[1]
    ELSE parts[1] \o sep \o JoinWith(Tail(parts), sep)

RECURSIVE Stringify(_, _, _)
\* JSON.stringify(x, null, gap) of a value nested `level` deep, where gap is
\* "" for JSON.stringify(x); "undefined" stands for the undefined that
\* JSON.stringify(undefined) returns
Stringify(x, gap, level) ==
    LET stepback == IF gap = "" THEN "" ELSE "\n" \o Repeat(gap, level)
        indent == IF gap = "" THEN "" ELSE "\n" \o Repeat(gap, level + 1)
        colon == IF gap = "" THEN ":" ELSE ": "
    IN  CASE x.t = "undefined" -> "undefined"
          [] x.t = "null" -> "null"
          [] x.t = "string" -> QuoteJSONString(x.str)
          [] x.t = "number" -> IntToString(x.num)
          [] x.t = "boolean" -> (IF x.bool THEN "true" ELSE "false")
          [] x.t = "array" ->
                IF Len(x.items) = 0 THEN "[]"
                ELSE LET parts == [i \in 1..Len(x.items) |->
                                     IF x.items[i].t = "undefined" THEN "null"
                                     ELSE Stringify(x.items[i], gap, level + 1)]
                     IN  "[" \o indent \o JoinWith(parts, "," \o indent)
                             \o stepback \o "]"
          [] x.t = "object" ->
                LET kept == SelectSeq(x.entries, LAMBDA e : e[2].t # "undefined")
                    parts == [i \in 1..Len(kept) |->
                                QuoteJSONString(kept[i][1]) \o colon
                                    \o Stringify(kept[i][2], gap, level + 1)]
                IN  IF Len(kept) = 0 THEN "{}"
                    ELSE "{" \o indent \o JoinWith(parts, "," \o indent)
                             \o stepback \o "}"

RECURSIVE TemplateString(_)
\* String(x), the text `${x}` puts into a template literal
TemplateString(x) ==
    CASE x.t = "undefined" -> "undefined"
      [] x.t = "null" -> "null"
      [] x.t = "string" -> x.str
      [] x.t = "number" -> IntToString(x.num)
      [] x.t = "boolean" -> (IF x.bool THEN "true" ELSE "false")
      [] x.t = "array" ->
            JoinWith([i \in 1..Len(x.items) |->
                        IF x.items[i].t \in {"undefined", "null"} THEN ""
                        ELSE TemplateString(x.items[i])], ",")
      [] x.t = "object" -> "[object Object]"

-----------------------------------------------------------------------------
(* Model-to-document generator *)

RECURSIVE prettyJsonWithCommentsEntries(_, _, _)
RECURSIVE prettyJsonWithComments(_, _)

\* the loop over Object.entries(obj), from entry i on
prettyJsonWithCommentsEntries(entries, i, indent) ==
    IF i > Len(entries) THEN ""
    ELSE LET key == entries[i][1]
             value == entries[i][2]
             nextNewLine == "\n" \o Repeat("  ", indent + 1)
             comma == IF i < Len(entries) THEN "," ELSE ""
             rest == prettyJsonWithCommentsEntries(entries, i + 1, indent)
         IN  IF key = "__comment"
             THEN nextNewLine \o "// " \o TemplateString(value) \o comma \o rest
             ELSE nextNewLine \o "\"" \o key \o "\": "
                    \o (IF value.t \in {"object", "array"}
                        THEN prettyJsonWithComments(value, indent + 1)
                        ELSE Stringify(value, "", 0))
                    \o comma \o rest

prettyJsonWithComments(obj, indent) ==
    IF obj.t \notin {"object", "array"} THEN Stringify(obj, "", 0)
    ELSE "{" \o prettyJsonWithCommentsEntries(Entries(obj), 1, indent)
             \o "\n" \o Repeat("  ", indent) \o "}"

\* result[k] = v when cond
PutIf(entries, cond, k, v) == IF cond THEN Put(entries, k, v) ELSE entries

RECURSIVE transformToJsonOutput(_, _)
transformToJsonOutput(node, comments) ==
    LET type == Get(node, "type")
        description == Get(node, "description")
        r1 == Put(<<>>, "type", type)
        r2 == PutIf(r1, Truthy(description), "description", description)
        r3 == PutIf(r2, comments /\ Truthy(description), "__comment", description)
        properties == Get(node, "properties")
        r4 == PutIf(r3, type = Str("object") /\ Truthy(properties), "properties",
                    Obj([i \in 1..Len(Entries(properties)) |->
                           <<Entries(properties)[i][1],
                             transformToJsonOutput(Entries(properties)[i][2],
                                                   comments)>>]))
        items == Get(node, "items")
        r5 == PutIf(r4, type = Str("array") /\ Truthy(items), "items",
                    transformToJsonOutput(items, comments))
        enum == Get(node, "enum")
        r6 == PutIf(r5, type = Str("enum") /\ Truthy(enum), "enum", enum)
        unionTypes == Get(node, "unionTypes")
        r7 == PutIf(r6, type = Str("union") /\ Truthy(unionTypes), "oneOf",
                    Arr([i \in 1..Len(unionTypes.items) |->
                           transformToJsonOutput(unionTypes.items[i], comments)]))
        r8 == PutIf(r7, type = Str("literal"), "const", Get(node, "literal"))
        r9 == PutIf(r8, Truthy(Get(node, "nullable")), "nullable", Bool(TRUE))
        r10 == PutIf(r9, Truthy(Get(node, "optional")), "optional", Bool(TRUE))
    IN  Obj(r10)

\* a generator that writes the commented form on one line
generateCompactComments(node, comments) ==
    Stringify(transformToJsonOutput(node, comments), IF comments THEN "" ELSE "  ", 0)

generateJsonOutput(node, comments) ==
    LET jsonObj == transformToJsonOutput(node, comments)
    IN  IF comments THEN prettyJsonWithComments(jsonObj, 0)
        ELSE Stringify(jsonObj, "  ", 0)

-----------------------------------------------------------------------------
(* Comment-aware reader: removeComments *)

\* a removeComments that leaves the comments in
keepComments(src) == src

\* the scanner of removeComments before the first character; i counts from 1
ScanStart == [state |-> "DEFAULT", i |-> 1, result |-> "", escapeChar |-> FALSE]

\* one iteration of the while loop of removeComments
ScanStep(src, sc) ==
    LET char == At(src, sc.i)
        nextChar == At(src, sc.i + 1)
    IN  CASE sc.i > Len(src) -> sc
          [] sc.i <= Len(src) /\ sc.state = "DEFAULT" ->
               IF char = "\"" /\ ~sc.escapeChar
               THEN [sc EXCEPT !.state = "IN_STRING", !.result = @ \o char,
                               !.i = @ + 1]
               ELSE IF char = "/" /\ nextChar = "/"
               THEN [sc EXCEPT !.state = "IN_LINE_COMMENT", !.i = @ + 2]
               ELSE IF char = "/" /\ nextChar = "*"
               THEN [sc EXCEPT !.state = "IN_BLOCK_COMMENT", !.i = @ + 2]
               ELSE [sc EXCEPT !.result = @ \o char, !.i = @ + 1]
          [] sc.i <= Len(src) /\ sc.state = "IN_STRING" ->
               IF char = "\\"
               THEN [sc EXCEPT !.result = @ \o char, !.i = @ + 1,
                               !.escapeChar = ~@]
               ELSE IF char = "\"" /\ ~sc.escapeChar
               THEN [sc EXCEPT !.result = @ \o char, !.i = @ + 1,
                               !.state = "DEFAULT"]
               ELSE [sc EXCEPT !.result = @ \o char, !.i = @ + 1,
                               !.escapeChar = FALSE]
          [] sc.i <= Len(src) /\ sc.state = "IN_LINE_COMMENT" ->
               IF char = "\n"
               THEN [sc EXCEPT !.state = "DEFAULT", !.result = @ \o "\n",
                               !.i = @ + 1]
               ELSE IF char = "\r"
               THEN [sc EXCEPT !.state = "DEFAULT", !.i = @ + 1,
                               !.result = IF nextChar = "\n" THEN @ ELSE @ \o "\r"]
               ELSE [sc EXCEPT !.i = @ + 1]
          [] sc.i <= Len(src) /\ sc.state = "IN_BLOCK_COMMENT" ->
               IF char = "*" /\ nextChar = "/"
               THEN [sc EXCEPT !.state = "DEFAULT", !.i = @ + 2]
               ELSE [sc EXCEPT !.i = @ + 1]

removeComments(src) == Loop(ScanStep, src, ScanStart).result

-----------------------------------------------------------------------------
(* Comment-aware reader: fixCommonJsonIssues.  A replace(/.../g, ...) is   *)
(* a loop over the text: at each position the pattern is tried, a match is *)
(* replaced and skipped, any other character is copied.                    *)

\* where a replace loop starts
ReplaceStart == [i |-> 1, out |-> ""]
\* the loop after a match that ends at position last: text replaces it
Replaced(st, text, last) == [i |-> last + 1, out |-> st.out \o text]
\* the loop after a position where the pattern does not match
Copied(s, st) == [i |-> st.i + 1, out |-> st.out \o At(s, st.i)]

RECURSIVE TrimStart(_)
TrimStart(s) ==
    IF Len(s) > 0 /\ At(s, 1) \in SpaceChars THEN TrimStart(From(s, 2)) ELSE s

RECURSIVE TrimEnd(_)
TrimEnd(s) ==
    IF Len(s) > 0 /\ At(s, Len(s)) \in SpaceChars
    THEN TrimEnd(SubSeq(s, 1, Len(s) - 1)) ELSE s

\* s.trim()
Trim(s) == TrimEnd(TrimStart(s))

\* one position of s.replace(/,(\s*[}\]])/g, '$1')
fixTrailingCommas(s, st) ==
    LET j == SkipIn(s, st.i + 1, SpaceChars)
    IN  IF st.i > Len(s) THEN st
        ELSE IF At(s, st.i) = "," /\ At(s, j) \in {"}", "]"}
        THEN Replaced(st, SubSeq(s, st.i + 1, j), j)
        ELSE Copied(s, st)

RECURSIVE PropNameEnd(_, _)
\* for (".*?")(\s*:\s*): the nearest closing quote at or after k that \s*:
\* follows, no line terminator before it; 0 when there is none
PropNameEnd(s, k) ==
    IF k > Len(s) \/ At(s, k) \in LineTerminators THEN 0
    ELSE IF At(s, k) = "\"" /\ At(s, SkipIn(s, k + 1, SpaceChars)) = ":" THEN k
    ELSE PropNameEnd(s, k + 1)

\* one position of s.replace(/(".*?")(\s*:\s*)(.*?)(\s*)(,?)(\s*)/g, (match,
\*   propName, colon, value, space, comma, endSpace) => ...).  The lazy (.*?)
\* and the (\s*) after it match the empty text: the \s* of the colon group
\* is greedy and everything after them may be empty.
fixPropertyValues(s, st) ==
    LET k == IF At(s, st.i) = "\"" THEN PropNameEnd(s, st.i + 1) ELSE 0
        c == SkipIn(s, k + 1, SpaceChars)
        e == SkipIn(s, c + 1, SpaceChars)
        propName == SubSeq(s, st.i, k)
        colon == SubSeq(s, k + 1, e - 1)
        value == ""
        comma == IF At(s, e) = "," THEN "," ELSE ""
        f == e + Len(comma)
        g == SkipIn(s, f, SpaceChars)
        endSpace == SubSeq(s, f, g - 1)
    IN  IF st.i > Len(s) THEN st
        ELSE IF k = 0 THEN Copied(s, st)
        ELSE Replaced(st, propName \o colon \o Trim(value)
                            \o (IF comma # "" THEN "," ELSE "") \o endSpace,
                      g - 1)

\* for (\{|\,)\s*([a-zA-Z0-9_$]+)\s*: at position i: where the name starts
\* and ends and where the colon is; colon = 0 when there is no match at i
BareName(s, i) ==
    LET a == SkipIn(s, i + 1, SpaceChars)
        b == SkipIn(s, a, NameChars)
        c == SkipIn(s, b, SpaceChars)
    IN  IF At(s, i) \in {"{", ","} /\ b > a /\ At(s, c) = ":"
        THEN [first |-> a, last |-> b - 1, colon |-> c]
        ELSE [first |-> 0, last |-> 0, colon |-> 0]

\* one position of s.replace(/(\{|\,)\s*([a-zA-Z0-9_$]+)\s*:/g, '$1"$2":')
fixUnquotedNames(s, st) ==
    LET m == BareName(s, st.i)
    IN  IF st.i > Len(s) THEN st
        ELSE IF m.colon = 0 THEN Copied(s, st)
        ELSE Replaced(st, At(s, st.i) \o "\"" \o SubSeq(s, m.first, m.last)
                            \o "\":", m.colon)

\* where the loop over single-quoted strings starts
QuoteStart ==
    [i |-> 1, out |-> "", inString |-> FALSE, stringQuote |-> "",
     escaped |-> FALSE]

\* one iteration of the loop that turns single-quoted strings into
\* double-quoted ones
fixSingleQuotes(s, st) ==
    LET char == At(s, st.i)
        next == [st EXCEPT !.i = @ + 1]
    IN  IF st.i > Len(s) THEN st
        ELSE IF ~st.inString
        THEN IF char = "\"" \/ char = "'"
             THEN [next EXCEPT !.inString = TRUE, !.stringQuote = char,
                               !.out = @ \o (IF char = "'" THEN "\"" ELSE char)]
             ELSE [next EXCEPT !.out = @ \o char]
        ELSE IF st.escaped
        THEN [next EXCEPT !.out = @ \o char, !.escaped = FALSE]
        ELSE IF char = "\\"
        THEN [next EXCEPT !.out = @ \o char, !.escaped = TRUE]
        ELSE IF char = st.stringQuote
        THEN [next EXCEPT !.inString = FALSE,
                          !.out = @ \o (IF st.stringQuote = "'" THEN "\"" ELSE char)]
        ELSE [next EXCEPT !.out = @ \o char]

RECURSIVE QuotedEnd(_, _)
\* for ".*?" with nothing after it: the next quote at or after k on the line
QuotedEnd(s, k) ==
    IF k > Len(s) \/ At(s, k) \in LineTerminators THEN 0
    ELSE IF At(s, k) = "\"" THEN k
    ELSE QuotedEnd(s, k + 1)

\* for (".*?"|\d+|true|false|null) at position v: the last position of the
\* match, 0 when no alternative matches
SimpleValueEnd(s, v) ==
    IF At(s, v) = "\"" /\ QuotedEnd(s, v + 1) # 0 THEN QuotedEnd(s, v + 1)
    ELSE IF At(s, v) \in DigitChars THEN SkipIn(s, v, DigitChars) - 1
    ELSE IF StartsAt(s, "true", v) THEN v + 3
    ELSE IF StartsAt(s, "false", v) THEN v + 4
    ELSE IF StartsAt(s, "null", v) THEN v + 3
    ELSE 0

\* one position of s.replace(
\*   /(\{|\,)\s*([a-zA-Z0-9_$]+)\s*:\s*(".*?"|\d+|true|false|null)/g, '$1"$2":$3')
fixNamedValues(s, st) ==
    LET m == BareName(s, st.i)
        v == SkipIn(s, m.colon + 1, SpaceChars)
        w == IF m.colon = 0 THEN 0 ELSE SimpleValueEnd(s, v)
    IN  IF st.i > Len(s) THEN st
        ELSE IF w = 0 THEN Copied(s, st)
        ELSE Replaced(st, At(s, st.i) \o "\"" \o SubSeq(s, m.first, m.last)
                            \o "\":" \o SubSeq(s, v, w), w)

fixCommonJsonIssues(jsonString) ==
    LET fixed1 == Loop(fixTrailingCommas, jsonString, ReplaceStart).out
        fixed2 == Loop(fixPropertyValues, fixed1, ReplaceStart).out
        fixed3 == Loop(fixUnquotedNames, fixed2, ReplaceStart).out
        fixed4 == Loop(fixSingleQuotes, fixed3, QuoteStart).out
    IN  Loop(fixNamedValues, fixed4, ReplaceStart).out

-----------------------------------------------------------------------------
(* JSON.parse: the strict decoder.  Numbers of the model are integers.      *)

\* a failure of the decoder at position `at` (counted from 1)
Failure(at) == [ok |-> FALSE, at |-> at]
Success(v, next) == [ok |-> TRUE, v |-> v, next |-> next]

HexChars == DigitChars \cup {"a","b","c","d","e","f","A","B","C","D","E","F"}

\* the character an escape \c stands for; \b and \uXXXX, which have no TLA+
\* form, stand for themselves
Unescape(c) ==
    CASE c = "n" -> "\n" [] c = "r" -> "\r" [] c = "t" -> "\t"
      [] c = "f" -> "\f" [] c = "b" -> "\\b" [] OTHER -> c

RECURSIVE ParseChars(_, _, _)
\* the characters of a string up to its closing quote, from position i on
ParseChars(s, i, acc) ==
    LET c == At(s, i)
    IN  IF i > Len(s) THEN Failure(i)
        ELSE IF c = "\"" THEN Success(Str(acc), i + 1)
        ELSE IF c \in {"\n", "\r", "\t", "\f"} THEN Failure(i)
        ELSE IF c = "\\"
        THEN IF At(s, i + 1) \in {"\"", "\\", "/", "b", "f", "n", "r", "t"}
             THEN ParseChars(s, i + 2, acc \o Unescape(At(s, i + 1)))
             ELSE IF At(s, i + 1) = "u"
                     /\ \A k \in 2..5 : At(s, i + k) \in HexChars
             THEN ParseChars(s, i + 6, acc \o SubSeq(s, i, i + 5))
             ELSE Failure(i + 1)
        ELSE ParseChars(s, i + 1, acc \o c)

ParseNumber(s, i) ==
    LET d == IF At(s, i) = "-" THEN i + 1 ELSE i
        e == SkipIn(s, d, DigitChars)
        n == DigitsValue(s, d, e - 1, 0)
    IN  IF e = d THEN Failure(d)
        ELSE IF At(s, d) = "0" /\ e > d + 1 THEN Failure(d + 1)
        ELSE Success(Num(IF d > i THEN 0 - n ELSE n), e)

RECURSIVE ParseValue(_, _)
RECURSIVE ParseElements(_, _, _)
RECURSIVE ParseMembers(_, _, _)

\* an array with the elements acc and the element just read, r
ElementRead(s, acc, r) ==
    IF r.ok THEN ParseElements(s, r.next, Append(acc, r.v)) ELSE r

\* the elements of an array after its first: i is just after an element
ParseElements(s, i, acc) ==
    LET j == SkipIn(s, i, JsonSpace)
    IN  IF At(s, j) = "]" THEN Success(Arr(acc), j + 1)
        ELSE IF At(s, j) # "," THEN Failure(j)
        ELSE ElementRead(s, acc, ParseValue(s, j + 1))

\* an object with the members acc after one more member, which ends before k
MemberEnd(s, acc, k) ==
    IF At(s, k) = "}" THEN Success(Obj(acc), k + 1)
    ELSE IF At(s, k) = "," THEN ParseMembers(s, k + 1, acc)
    ELSE Failure(k)

\* a member whose name and value, r, are read
MemberValue(s, acc, name, r) ==
    IF ~r.ok THEN r
    ELSE MemberEnd(s, Put(acc, name.v.str, r.v), SkipIn(s, r.next, JsonSpace))

\* a member whose name is read: c is where its colon has to be
MemberColon(s, acc, name, c) ==
    IF At(s, c) # ":" THEN Failure(c)
    ELSE MemberValue(s, acc, name, ParseValue(s, c + 1))

MemberName(s, acc, name) ==
    IF ~name.ok THEN name
    ELSE MemberColon(s, acc, name, SkipIn(s, name.next, JsonSpace))

\* the members of an object: i is where a property name has to start
ParseMembers(s, i, acc) ==
    LET j == SkipIn(s, i, JsonSpace)
    IN  MemberName(s, acc, IF At(s, j) = "\"" THEN ParseChars(s, j + 1, "")
                           ELSE Failure(j))

\* a value, with the whitespace before it, from position i on
ParseValue(s, i) ==
    LET j == SkipIn(s, i, JsonSpace)
        c == At(s, j)
    IN  IF c = "{"
        THEN IF At(s, SkipIn(s, j + 1, JsonSpace)) = "}"
             THEN Success(Obj(<<>>), SkipIn(s, j + 1, JsonSpace) + 1)
             ELSE ParseMembers(s, j + 1, <<>>)
        ELSE IF c = "["
        THEN IF At(s, SkipIn(s, j + 1, JsonSpace)) = "]"
             THEN Success(Arr(<<>>), SkipIn(s, j + 1, JsonSpace) + 1)
             ELSE ElementRead(s, <<>>, ParseValue(s, j + 1))
        ELSE IF c = "\"" THEN ParseChars(s, j + 1, "")
        ELSE IF c = "-" \/ c \in DigitChars THEN ParseNumber(s, j)
        ELSE IF StartsAt(s, "true", j) THEN Success(Bool(TRUE), j + 4)
        ELSE IF StartsAt(s, "false", j) THEN Success(Bool(FALSE), j + 5)
        ELSE IF StartsAt(s, "null", j) THEN Success(Null, j + 4)
        ELSE Failure(j)

\* the message of the SyntaxError for a failure at position `at` of s, which
\* names the position (counted from 0) unless the text ended too early
SyntaxErrorMessage(s, at) ==
    IF at > Len(s) THEN "Unexpected end of JSON input"
    ELSE "Unexpected token " \o At(s, at) \o " in JSON at position "
            \o IntToString(at - 1)

\* what JSON.parse makes of s once a value, r, is read from its start
ValueRead(s, r) ==
    LET e == SkipIn(s, r.next, JsonSpace)
    IN  IF ~r.ok THEN [ok |-> FALSE, message |-> SyntaxErrorMessage(s, r.at)]
        ELSE IF e <= Len(s)
        THEN [ok |-> FALSE, message |-> SyntaxErrorMessage(s, e)]
        ELSE [ok |-> TRUE, value |-> r.v]

\* JSON.parse(s): the value, or the message of the SyntaxError thrown
JSONParse(s) == ValueRead(s, ParseValue(s, 1))

-----------------------------------------------------------------------------
(* Comment-aware reader: parseJsonc *)

\* the last position <= i of s whose character is in set, 0 when none
LastIn(s, i, set) ==
    CHOOSE k \in 0..Max(i, 0) :
        /\ k = 0 \/ At(s, k) \in set
        /\ \A m \in (k + 1)..i : At(s, m) \notin set

RECURSIVE SkipBack(_, _, _)
\* the last position <= i of s whose character is not in set, 0 when none
SkipBack(s, i, set) ==
    IF i >= 1 /\ At(s, i) \in set THEN SkipBack(s, i - 1, set) ELSE i

\* a quote at position q with :\s* before it
IsValueQuote(s, q) == q # 0 /\ At(s, SkipBack(s, q - 1, SpaceChars)) = ":"

\* the lookbehind (?<=:\s*"[^"]*) at position i
AfterValueQuote(s, i) == IsValueQuote(s, LastIn(s, i - 1, {"\""}))

\* one position of s.replace(/(?<=:\s*"[^"]*)'([^']*)'([^"]*")/g, '"$1"$2')
fixNestedQuotes(s, st) ==
    LET j == IndexFrom(s, "'", st.i + 1)
        k == IF j = 0 THEN 0 ELSE IndexFrom(s, "\"", j + 1)
    IN  IF st.i > Len(s) THEN st
        ELSE IF At(s, st.i) = "'" /\ AfterValueQuote(s, st.i) /\ k # 0
        THEN Replaced(st, "\"" \o SubSeq(s, st.i + 1, j - 1) \o "\""
                            \o SubSeq(s, j + 1, k), k)
        ELSE Copied(s, st)

\* one position of s.replace(/(?<={[^{}]*)\b([a-zA-Z0-9_]+):/g, '"$1":')
fixNestedNames(s, st) ==
    LET b == SkipIn(s, st.i, WordChars)
        brace == LastIn(s, st.i - 1, {"{", "}"})
    IN  IF st.i > Len(s) THEN st
        ELSE IF /\ b > st.i
                /\ At(s, st.i - 1) \notin WordChars
                /\ At(s, b) = ":"
                /\ At(s, brace) = "{"
        THEN Replaced(st, "\"" \o SubSeq(s, st.i, b - 1) \o "\":", b)
        ELSE Copied(s, st)

\* the second, more aggressive normalization of parseJsonc
extraFix(fixed) ==
    Loop(fixNestedNames, Loop(fixNestedQuotes, fixed, ReplaceStart).out,
         ReplaceStart).out

\* one iteration of the loop of debugJsonError that counts lines and columns
countLineColumn(s, st) ==
    IF st.i > Len(s) THEN st
    ELSE IF At(s, st.i) = "\n"
    THEN [i |-> st.i + 1, line |-> st.line + 1, col |-> 1]
    ELSE [i |-> st.i + 1, line |-> st.line, col |-> st.col + 1]

\* the line and column it counts for position pos (from 0) of s
LineColumn(s, pos) ==
    Loop(countLineColumn, SubSeq(s, 1, pos), [i |-> 1, line |-> 1, col |-> 1])


\* how far around the failure position the logged excerpt reaches
ExcerptRadius == 40

\* parseInt of the digits after "position " in the message; -1 when the
\* message names no position
positionIn(errorMessage) ==
    LET p == IndexFrom(errorMessage, "position ", 1)
        d == p + Len("position ")
        e == SkipIn(errorMessage, d, DigitChars)
    IN  IF p = 0 \/ e = d THEN 0 - 1 ELSE DigitsValue(errorMessage, d, e - 1, 0)

\* the three lines debugJsonError logs for position pos, on line lc.line at
\* column lc.col; the marker between the two halves of the excerpt is "HERE"
debugLines(jsonStr, pos, lc) ==
    << "JSON error at position " \o IntToString(pos) \o ":",
       "..." \o SubSeq(jsonStr, Max(0, pos - ExcerptRadius) + 1, pos) \o "HERE"
             \o SubSeq(jsonStr, pos + 1, Min(Len(jsonStr), pos + ExcerptRadius))
             \o "...",
       "Line " \o IntToString(lc.line) \o ", Column " \o IntToString(lc.col) >>

debugJsonErrorAt(errorMessage, jsonStr, pos) ==
    [returns |-> errorMessage,
     console |-> IF pos < 0 THEN <<>>
                 ELSE debugLines(jsonStr, pos, LineColumn(jsonStr, pos))]

\* debugJsonError(errorMessage, jsonStr): what it returns, which is
\* errorMessage as it came, and what it writes with console.error
debugJsonError(errorMessage, jsonStr) ==
    debugJsonErrorAt(errorMessage, jsonStr, positionIn(errorMessage))

\* an Error object: its own data is the message alone
Error(message) == [message |-> message]

\* throw new Error(errorMsg), errorMsg being what debugJsonError returned
throwDebugged(debugged) ==
    [returned |-> FALSE, error |-> Error(debugged.returns),
     console |-> debugged.console]

\* the inner catch: both JSON.parse calls threw
secondAttempt(fixedJsonString, first, second) ==
    IF second.ok
    THEN [returned |-> TRUE, value |-> second.value, console |-> <<>>]
    ELSE throwDebugged(debugJsonError(first.message, fixedJsonString))

\* the outer try: JSON.parse(fixedJsonString) returned or threw `first`
firstAttempt(fixedJsonString, first) ==
    IF first.ok
    THEN [returned |-> TRUE, value |-> first.value, console |-> <<>>]
    ELSE secondAttempt(fixedJsonString, first,
                       JSONParse(extraFix(fixedJsonString)))

parseFixed(fixedJsonString) ==
    firstAttempt(fixedJsonString, JSONParse(fixedJsonString))

\* parseJsonc(src): what it returns or throws and what it wrote with
\* console.error
parseJsonc(src) == parseFixed(fixCommonJsonIssues(removeComments(src)))

-----------------------------------------------------------------------------
(* Model-to-source generator: jsonToZod *)

\* what a call returns, or the fact that it threw
Returned(text) == [ok |-> TRUE, text |-> text]
Threw == [ok |-> FALSE, text |-> ""]

\* an element of an array as Array.prototype.join writes it
JoinString(x) == IF x.t \in {"undefined", "null"} THEN "" ELSE TemplateString(x)

\* modifier calls with .optional() written before .nullable()
optionalFirst(base, node) ==
    LET description == Get(node, "description")
        m1 == IF Truthy(Get(node, "optional")) THEN base \o ".optional()" ELSE base
        m2 == IF Truthy(Get(node, "nullable")) THEN m1 \o ".nullable()" ELSE m1
    IN  IF Truthy(description)
        THEN m2 \o ".description(\"" \o TemplateString(description) \o "\")"
        ELSE m2

\* the modifier calls jsonToZod appends to the base construct
withModifiers(base, node) ==
    LET description == Get(node, "description")
        m1 == IF Truthy(Get(node, "nullable")) THEN base \o ".nullable()" ELSE base
        m2 == IF Truthy(Get(node, "optional")) THEN m1 \o ".optional()" ELSE m1
    IN  IF Truthy(description)
        THEN m2 \o ".description(\"" \o TemplateString(description) \o "\")"
        ELSE m2

\* x.length > 0
NonEmptyLength(x) ==
    LET n == Get(x, "length") IN n.t = "number" /\ n.num > 0

\* a property entry with its name in quotes
quotedPropertyEntry(key, text) == "\"" \o key \o "\": " \o text

\* `${key}: ${jsonToZod(value)}`
propertyEntry(key, text) == key \o ": " \o text

\* a default branch that refuses the node
unknownTypeThrows(jsonSchema) == Threw

\* the default branch of the switch
unknownType(jsonSchema) == Returned("z.any()")

RECURSIVE jsonToZod(_)
jsonToZod(jsonSchema) ==
    LET type == Get(jsonSchema, "type")
        literal == Get(jsonSchema, "literal")
        enum == Get(jsonSchema, "enum")
        items == Get(jsonSchema, "items")
        properties == Get(jsonSchema, "properties")
        unionTypes == Get(jsonSchema, "unionTypes")
        item == jsonToZod(items)
        props == [i \in 1..Len(Entries(properties)) |->
                    jsonToZod(Entries(properties)[i][2])]
        members == [i \in 1..Len(unionTypes.items) |-> jsonToZod(unionTypes.items[i])]
        base ==
          CASE type = Str("string") -> Returned("z.string()")
            [] type = Str("number") -> Returned("z.number()")
            [] type = Str("boolean") -> Returned("z.boolean()")
            [] type = Str("null") -> Returned("z.null()")
            [] type = Str("undefined") -> Returned("z.undefined()")
            [] type = Str("bigint") -> Returned("z.bigint()")
            [] type = Str("date") -> Returned("z.date()")
            [] type = Str("literal") ->
                 IF IsStr(literal)
                 THEN Returned("z.literal(\"" \o literal.str \o "\")")
                 ELSE Returned("z.literal(" \o Stringify(literal, "", 0) \o ")")
            [] type = Str("enum") ->
                 IF Truthy(enum) /\ NonEmptyLength(enum)
                 THEN IF ~IsArr(enum) THEN Threw
                      ELSE Returned("z.enum(["
                             \o JoinWith([i \in 1..Len(enum.items) |->
                                   IF IsStr(enum.items[i])
                                   THEN "\"" \o enum.items[i].str \o "\""
                                   ELSE JoinString(enum.items[i])], ", ")
                             \o "])")
                 ELSE Returned("z.enum([])")
            [] type = Str("array") ->
                 IF Truthy(items)
                 THEN IF item.ok THEN Returned("z.array(" \o item.text \o ")")
                      ELSE Threw
                 ELSE Returned("z.array(z.any())")
            [] type = Str("object") ->
                 IF Truthy(properties)
                 THEN IF \A i \in 1..Len(props) : props[i].ok
                      THEN Returned("z.object({\n  "
                             \o JoinWith([i \in 1..Len(props) |->
                                   propertyEntry(Entries(properties)[i][1],
                                                 props[i].text)], ",\n  ")
                             \o "\n})")
                      ELSE Threw
                 ELSE Returned("z.object({})")
            [] type = Str("union") ->
                 IF Truthy(unionTypes) /\ NonEmptyLength(unionTypes)
                 THEN IF ~IsArr(unionTypes) THEN Threw
                      ELSE IF \A i \in 1..Len(members) : members[i].ok
                      THEN Returned("z.union(["
                             \o JoinWith([i \in 1..Len(members) |->
                                            members[i].text], ", ")
                             \o "])")
                      ELSE Threw
                 ELSE Returned("z.any()")
            [] OTHER -> unknownType(jsonSchema)
    IN  IF jsonSchema.t \in {"null", "undefined"} THEN Threw
        ELSE IF base.ok THEN Returned(withModifiers(base.text, jsonSchema))
        ELSE Threw

-----------------------------------------------------------------------------
(* formatZodCode: the re-indentation of generated source *)

\* where the loop of formatZodCode starts
FormatStart ==
    [i |-> 1, result |-> "", indentLevel |-> 0, inString |-> FALSE, escape |-> FALSE]

\* '\n' + '  '.repeat(indentLevel)
NewLine(indentLevel) == "\n" \o Repeat("  ", indentLevel)

\* the newline after a comma, unless only spaces stand between the comma and
\* a closing bracket
afterComma(code, st, char, level, text) ==
    IF char = "," /\ level > 0
          /\ At(code, SkipIn(code, st.i + 1, {" "})) \notin {"]", "}"}
    THEN text \o NewLine(level)
    ELSE text

\* the deeper level and the newline after an opening bracket
afterOpening(code, st, char, level, text) ==
    IF char \in {"{", "["}
    THEN [st EXCEPT !.i = @ + 1, !.indentLevel = level + 1,
                    !.result = IF At(code, st.i + 1) \notin {"}", "]"}
                               THEN text \o NewLine(level + 1) ELSE text]
    ELSE [st EXCEPT !.i = @ + 1, !.indentLevel = level,
                    !.result = afterComma(code, st, char, level, text)]

\* the newline before a closing bracket, and the character itself
beforeClosing(code, st, char, level) ==
    afterOpening(code, st, char, level,
        (IF char \in {"}", "]"}
              /\ At(st.result, Len(st.result)) \notin {"{", "[", " "}
         THEN st.result \o NewLine(level)
         ELSE st.result) \o char)

\* the character at st.i outside a string
formatOutside(code, st, char) ==
    beforeClosing(code, st, char,
        IF char \in {"}", "]"} THEN Max(0, st.indentLevel - 1) ELSE st.indentLevel)

\* a formatter that treats the characters of a literal like any other
formatEveryChar(code, st, char) == formatOutside(code, st, char)

\* the character at st.i once inString and escape are brought up to date
formatChar(code, st, char) ==
    IF st.inString THEN [st EXCEPT !.i = @ + 1, !.result = @ \o char]
    ELSE formatOutside(code, st, char)

\* inString and escape after the character char
stringTracked(st, char, inString) ==
    [st EXCEPT !.inString = inString,
               !.escape = IF char = "\\" /\ inString THEN ~st.escape ELSE FALSE]

\* one iteration of the loop of formatZodCode
formatStep(code, st) ==
    IF st.i > Len(code) THEN st
    ELSE formatChar(code,
             stringTracked(st, At(code, st.i),
                 IF At(code, st.i) = "\"" /\ ~st.escape THEN ~st.inString
                 ELSE st.inString),
             At(code, st.i))

formatZodCode(code) == Loop(formatStep, code, FormatStart).result

-----------------------------------------------------------------------------
(* Model nodes (ZodToJsonSchema) the round trip starts from *)

\* how deep the generated nodes nest
MaxDepth == 1
\* how many values a generated enum node has at most
MaxEnumValues == 2

PrimitiveTypes ==
    {"string", "number", "boolean", "null", "undefined", "bigint", "date"}
LiteralValues == {Str("a"), Num(1), Bool(TRUE)}
EnumAtoms == {Str("a"), Str("b"), Num(1)}
EnumLists == UNION {[1..n -> EnumAtoms] : n \in 1..MaxEnumValues}
Descriptions == {"A note"}

\* a node literal { type: ..., <fields> }
Node(type, fields) == Obj(<<<<"type", Str(type)>>>> \o fields)
Field(name, value) == <<<<name, value>>>>

\* the node with every choice of description, nullable and optional
Modified(node) ==
    {Obj(node.entries \o d \o n \o o) :
        d \in {<<>>} \cup {Field("description", Str(t)) : t \in Descriptions},
        n \in {<<>>, Field("nullable", Bool(TRUE))},
        o \in {<<>>, Field("optional", Bool(TRUE))}}

LeafNodes ==
    {Node(t, <<>>) : t \in PrimitiveTypes}
    \cup {Node("literal", Field("literal", v)) : v \in LiteralValues}
    \cup {Node("enum", Field("enum", Arr(e))) : e \in EnumLists}

\* the leaves that composite nodes are built from
ChildLeaves ==
    { Node("string", <<>>),
      Node("number", Field("nullable", Bool(TRUE))),
      Node("boolean", Field("description", Str("B")) \o Field("optional", Bool(TRUE))),
      Node("literal", Field("literal", Str("a"))),
      Node("enum", Field("enum", Arr(<<Str("b"), Str("a")>>))
                     \o Field("description", Str("E"))) }

ArrayOf(k) == Node("array", Field("items", k))
ObjectOf(props) == Node("object", Field("properties", Obj(props)))
UnionOf(members) == Node("union", Field("unionTypes", Arr(members)))

RECURSIVE Children(_)
\* the nodes that may be a child of a node nesting d deep
Children(d) ==
    IF d <= 1 THEN ChildLeaves
    ELSE ChildLeaves
         \cup {ArrayOf(k) : k \in Children(d - 1)}
         \cup {Obj(ObjectOf(<<<<"a", k>>>>).entries \o Field("description", Str("O"))) :
                 k \in Children(d - 1)}
         \cup {UnionOf(<<k, Node("string", <<>>)>>) : k \in Children(d - 1)}

CompositeNodes(d) ==
    {ArrayOf(k) : k \in Children(d)}
    \cup {ObjectOf(<<>>)}
    \cup {ObjectOf(<<<<"a", k>>>>) : k \in Children(d)}
    \cup {ObjectOf(<<<<"a", j>>, <<"b", k>>>>) : j \in ChildLeaves, k \in Children(d)}
    \cup {UnionOf(<<j, k>>) : j \in ChildLeaves, k \in Children(d)}

Nodes ==
    UNION {Modified(n) : n \in LeafNodes}
    \cup (IF MaxDepth >= 1 THEN UNION {Modified(n) : n \in CompositeNodes(MaxDepth)}
          ELSE {})

-----------------------------------------------------------------------------
(* The round trip: model node -> document text -> parsed value -> source *)

NoValue == Undefined
NoOutcome == [returned |-> FALSE]

RoundTripIdle ==
    /\ schema = NoValue /\ includeComments = FALSE /\ jsonOutput = ""
    /\ parsed = NoOutcome /\ zodCode = Threw /\ rtPc = "idle"

RoundTripInit ==
    /\ schema \in Nodes
    /\ includeComments \in BOOLEAN
    /\ jsonOutput = ""
    /\ parsed = NoOutcome
    /\ zodCode = Threw
    /\ rtPc = "model"

\* the model is rendered as a document
Generate ==
    /\ rtPc = "model"
    /\ jsonOutput' = generateJsonOutput(schema, includeComments)
    /\ rtPc' = "document"
    /\ UNCHANGED <<schema, includeComments, parsed, zodCode>>

\* the document is read back
Read ==
    /\ rtPc = "document"
    /\ parsed' = parseJsonc(jsonOutput)
    /\ rtPc' = IF parsed'.returned THEN "parsed" ELSE "failed"
    /\ UNCHANGED <<schema, includeComments, jsonOutput, zodCode>>

\* the value read is rendered as source
Render ==
    /\ rtPc = "parsed"
    /\ zodCode' = jsonToZod(parsed.value)
    /\ rtPc' = "source"
    /\ UNCHANGED <<schema, includeComments, jsonOutput, parsed>>

NoEdits == [comments |-> 0, commas |-> 0, names |-> 0, quotes |-> 0]

ReaderIdle ==
    /\ document = <<>> /\ edited = <<>> /\ edits = NoEdits /\ source = ""
    /\ result = NoOutcome /\ baseline = NoOutcome /\ rdPc = "idle"

ExtractorIdle ==
    /\ zodSource = "" /\ extracted = NoValue /\ targetCode = "" /\ error = Null
    /\ exPc = "idle"

JsonToZodIdle ==
    /\ jsonSource = "" /\ note = "" /\ decoded = NoOutcome /\ rendered = Threw
    /\ jsonTarget = "" /\ jsonError = Null /\ jzPc = "idle"

AppIdle ==
    /\ direction = "zod-to-json" /\ sourceCode = "" /\ lastOp = "none"
    /\ prior = NoValue

FormatIdle == formatInput = "" /\ formatState = NoValue /\ formatPrior = NoValue

Init == RoundTripInit /\ ReaderIdle /\ ExtractorIdle /\ JsonToZodIdle /\ AppIdle /\ FormatIdle

Next ==
    \/ Generate /\ UNCHANGED <<rdVars, exVars, jzVars, apVars, fmVars>>
    \/ Read /\ UNCHANGED <<rdVars, exVars, jzVars, apVars, fmVars>>
    \/ Render /\ UNCHANGED <<rdVars, exVars, jzVars, apVars, fmVars>>

Spec == Init /\ [][Next]_vars

-----------------------------------------------------------------------------
(* Round-trip claims *)

\* the fields of a model node that hold a single child, a value or values
FlagOf(node, name) == Truthy(Get(node, name))
DescriptionOf(node) ==
    IF Truthy(Get(node, "description")) THEN Get(node, "description") ELSE Undefined

RECURSIVE SameNode(_, _)
\* structural equality of two model nodes: same type, flags and description,
\* and the same children and values under the same model fields
SameNode(a, b) ==
    LET pa == Get(a, "properties")
        pb == Get(b, "properties")
        ua == Get(a, "unionTypes")
        ub == Get(b, "unionTypes")
    IN  /\ a.t = b.t
        /\ IsObj(a) =>
            /\ Get(a, "type") = Get(b, "type")
            /\ FlagOf(a, "nullable") = FlagOf(b, "nullable")
            /\ FlagOf(a, "optional") = FlagOf(b, "optional")
            /\ DescriptionOf(a) = DescriptionOf(b)
            /\ Get(a, "literal") = Get(b, "literal")
            /\ Get(a, "enum") = Get(b, "enum")
            /\ SameNode(Get(a, "items"), Get(b, "items"))
            /\ pa.t = pb.t
            /\ IsObj(pa) =>
                 /\ Len(pa.entries) = Len(pb.entries)
                 /\ \A i \in 1..Len(pa.entries) :
                       /\ pa.entries[i][1] = pb.entries[i][1]
                       /\ SameNode(pa.entries[i][2], pb.entries[i][2])
            /\ ua.t = ub.t
            /\ IsArr(ua) =>
                 /\ Len(ua.items) = Len(ub.items)
                 /\ \A i \in 1..Len(ua.items) : SameNode(ua.items[i], ub.items[i])

\* C1: reading back the document generated without comments gives a value
\* structurally equal to the model node it was generated from
C1_RoundTripStable ==
    (rtPc = "parsed" /\ ~includeComments) => SameNode(parsed.value, schema)

\* C2: the source rendered from the value read back from the generated
\* document, with or without comments, is the source rendered from the model
C2_SemanticContentKept ==
    rtPc = "source" => zodCode = jsonToZod(schema)

\* a value of an enum as z.enum([...]) lists it
EnumValueText(v) == IF IsStr(v) THEN "\"" \o v.str \o "\"" ELSE IntToString(v.num)
EnumCall(values) ==
    "z.enum([" \o JoinWith([i \in 1..Len(values) |-> EnumValueText(values[i])], ", ")
               \o "])"

\* C3: an enum node rendered to a document (with or without comments), read
\* back and rendered as source gives z.enum([...]) with exactly its values
\* in their order
C3_EnumOrderKept ==
    (rtPc = "source" /\ Get(schema, "type") = Str("enum"))
        => /\ zodCode.ok
           /\ StartsAt(zodCode.text, EnumCall(Get(schema, "enum").items), 1)

-----------------------------------------------------------------------------
(* The comment-aware reader at work: documents, authoring edits, parseJsonc *)

\* how many edits an author makes to one document
MaxEdits == 2

\* the documents, token by token; the last ones are not well formed
Documents ==
    { <<"{", "\"a\"", ":", "1", "}">>,
      <<"{", "\n  ", "\"foo\"", ":", " ", "1", "\n", "}">>,
      <<"[", "1", ",", "\"//\"", "]">>,
      <<"{", "\"a\"", ":", "\"x\\\"//y\"", "}">>,
      <<"{", "\"a\"", ":", "\"/* b */\"", "}">>,
      <<"{", "\"a\"", ":", "\"x,}\"", "}">>,
      <<"{", "\"a\"", ":", "\"x, b://c\"", "}">>,
      <<"{", "\"a\"", ":", "\"{b: 1\"", "}">>,
      <<"{", "\"a\"", ":", "\"http://x\"", "}">>,
      <<"{", "\"a\"", ":", "{", "\"b_1\"", ":", "[true, null]", "}", "}">>,
      <<"[", "\"a\"", ",", "-12", "]">>,
      <<"[", "1", ",", "2">>,
      <<"{", "\"a\"", " ", "1", "}">> }

\* the comments an author inserts
BlockComments == {"/* \"c\" // */"}
LineComments == {"// c's /*\n", "//c\r\n"}
Comments == BlockComments \cup LineComments

\* the text of a token sequence
Text(tokens) == JoinWith(tokens, "")

IsComment(token) == StartsAt(token, "//", 1) \/ StartsAt(token, "/*", 1)
IsBlank(token) == SkipIn(token, 1, JsonSpace) > Len(token)
IsQuoted(token) == Len(token) >= 2 /\ At(token, 1) = "\"" /\ At(token, Len(token)) = "\""
Inner(token) == SubSeq(token, 2, Len(token) - 1)

\* the nearest token before / after position k that is neither blank nor a comment
Significant(tokens, k) == ~IsBlank(tokens[k]) /\ ~IsComment(tokens[k])
PreviousToken(tokens, k) ==
    LET before == {j \in 1..(k - 1) : Significant(tokens, j)}
    IN  IF before = {} THEN "" ELSE tokens[CHOOSE j \in before : \A m \in before : m <= j]
NextToken(tokens, k) ==
    LET after == {j \in (k + 1)..Len(tokens) : Significant(tokens, j)}
    IN  IF after = {} THEN "" ELSE tokens[CHOOSE j \in after : \A m \in after : j <= m]

InsertAt(tokens, k, token) ==
    SubSeq(tokens, 1, k) \o <<token>> \o SubSeq(tokens, k + 1, Len(tokens))
ReplaceAt(tokens, k, token) == [tokens EXCEPT ![k] = token]

EditCount == edits.comments + edits.commas + edits.names + edits.quotes

\* a document is well formed when a strict JSON decoder accepts its text
WellFormed(tokens) == JSONParse(Text(tokens)).ok
StrictValue(tokens) == JSONParse(Text(tokens)).value

ReaderInit ==
    /\ document \in Documents
    /\ edited = document
    /\ edits = NoEdits
    /\ source = ""
    /\ result = NoOutcome
    /\ baseline = NoOutcome
    /\ rdPc = "new"

\* the document as it stands is handed to parseJsonc
Open ==
    /\ rdPc = "new"
    /\ baseline' = parseJsonc(Text(document))
    /\ rdPc' = "editing"
    /\ UNCHANGED <<document, edited, edits, source, result>>

\* a comment is written between two tokens, before the first or after the last
InsertComment ==
    /\ rdPc = "editing" /\ EditCount < MaxEdits
    /\ edits.comments = EditCount
    /\ \E k \in 0..Len(edited), c \in Comments :
          edited' = InsertAt(edited, k, c)
    /\ edits' = [edits EXCEPT !.comments = @ + 1]
    /\ UNCHANGED <<document, source, result, baseline, rdPc>>

\* a comma is written after the last element of an array or object
AddTrailingComma ==
    /\ rdPc = "editing" /\ EditCount < MaxEdits
    /\ edits.comments = 0
    /\ \E k \in 1..Len(edited) :
          /\ edited[k] \in {"}", "]"}
          /\ PreviousToken(edited, k) \notin {"", "{", "[", ","}
          /\ edited' = InsertAt(edited, k - 1, ",")
    /\ edits' = [edits EXCEPT !.commas = @ + 1]
    /\ UNCHANGED <<document, source, result, baseline, rdPc>>

\* the quotes around a property name of letters, digits, _ and $ are dropped
UnquoteName ==
    /\ rdPc = "editing" /\ EditCount < MaxEdits
    /\ edits.comments = 0
    /\ \E k \in 1..Len(edited) :
          /\ IsQuoted(edited[k])
          /\ Len(Inner(edited[k])) > 0
          /\ SkipIn(Inner(edited[k]), 1, NameChars) > Len(Inner(edited[k]))
          /\ NextToken(edited, k) = ":"
          /\ edited' = ReplaceAt(edited, k, Inner(edited[k]))
    /\ edits' = [edits EXCEPT !.names = @ + 1]
    /\ UNCHANGED <<document, source, result, baseline, rdPc>>

\* a string without quote or backslash characters is written with single quotes
SingleQuote ==
    /\ rdPc = "editing" /\ EditCount < MaxEdits
    /\ edits.comments = 0
    /\ \E k \in 1..Len(edited) :
          /\ IsQuoted(edited[k])
          /\ \A i \in 1..Len(Inner(edited[k])) :
                At(Inner(edited[k]), i) \notin {"\"", "'", "\\"}
          /\ edited' = ReplaceAt(edited, k, "'" \o Inner(edited[k]) \o "'")
    /\ edits' = [edits EXCEPT !.quotes = @ + 1]
    /\ UNCHANGED <<document, source, result, baseline, rdPc>>

\* the edited text is handed to parseJsonc
Parse ==
    /\ rdPc = "editing"
    /\ source' = Text(edited)
    /\ result' = parseJsonc(Text(edited))
    /\ rdPc' = "parsed"
    /\ UNCHANGED <<document, edited, edits, baseline>>

InitReader == RoundTripIdle /\ ReaderInit /\ ExtractorIdle /\ JsonToZodIdle /\ AppIdle /\ FormatIdle

NextReader ==
    \/ Open /\ UNCHANGED <<rtVars, exVars, jzVars, apVars, fmVars>>
    \/ InsertComment /\ UNCHANGED <<rtVars, exVars, jzVars, apVars, fmVars>>
    \/ AddTrailingComma /\ UNCHANGED <<rtVars, exVars, jzVars, apVars, fmVars>>
    \/ UnquoteName /\ UNCHANGED <<rtVars, exVars, jzVars, apVars, fmVars>>
    \/ SingleQuote /\ UNCHANGED <<rtVars, exVars, jzVars, apVars, fmVars>>
    \/ Parse /\ UNCHANGED <<rtVars, exVars, jzVars, apVars, fmVars>>

SpecReader == InitReader /\ [][NextReader]_vars

-----------------------------------------------------------------------------
(* Reader claims *)

\* C4: for a well-formed document, writing line or block comments between
\* its tokens does not change what parseJsonc makes of it: the same value
\* is returned (and a document parseJsonc cannot read stays unreadable).
C4_CommentImmunity ==
    (rdPc = "parsed" /\ WellFormed(document) /\ edits.comments = EditCount)
        => /\ result.returned = baseline.returned
           /\ (baseline.returned => result.value = baseline.value)

\* two comments, one of each kind, were written into a well-formed document
\* and parseJsonc returned the document's value
C4_Witness ==
    /\ rdPc = "parsed" /\ WellFormed(document)
    /\ edits.comments = 2 /\ EditCount = 2
    /\ Includes(source, "/* \"c\" // */") /\ Includes(source, "//c\r\n")
    /\ result.returned /\ result.value = StrictValue(document)

\* a double-quoted string value of the document holds // or /*
HasCommentOpener(tokens) ==
    \E k \in 1..Len(tokens) :
        /\ IsQuoted(tokens[k])
        /\ NextToken(tokens, k) # ":"
        /\ Includes(Inner(tokens[k]), "//") \/ Includes(Inner(tokens[k]), "/*")

\* C5: when a double-quoted string value holds // or /* (also after an
\* escaped quote), removeComments copies the whole text, the scanner taking
\* nothing in the string for a comment, and parseJsonc returns the value
\* with exactly that string.
C5_StringsKept ==
    (rdPc = "parsed" /\ WellFormed(document) /\ EditCount = 0
                     /\ HasCommentOpener(document))
        => /\ removeComments(source) = source
           /\ result.returned
           /\ result.value = StrictValue(document)

\* C6: the normalization passes change nothing inside a double-quoted
\* string: for a strictly valid JSON document parseJsonc returns exactly
\* the value a strict JSON decoder returns.
C6_StringsUntouched ==
    (rdPc = "parsed" /\ WellFormed(document) /\ EditCount = 0)
        => (result.returned /\ result.value = StrictValue(document))

\* parseJsonc reads the document as a strict decoder does
BaselineStrict == baseline.returned /\ baseline.value = StrictValue(document)

\* C7: a strictly valid JSON document written with trailing commas, with
\* unquoted property names or with single-quoted strings still decodes
\* with parseJsonc, without error, to the value of the document.
C7_TolerantDecoding ==
    (rdPc = "parsed" /\ WellFormed(document) /\ BaselineStrict
                     /\ EditCount > 0 /\ edits.comments = 0)
        => (result.returned /\ result.value = StrictValue(document))

\* the error carries what debugJsonError logged about the position: the
\* excerpt and the line and column
CarriesPosition(raised, console) ==
    /\ Len(console) = 3
    /\ Includes(raised.message, console[2])
    /\ Includes(raised.message, console[3])

\* C8: whenever parseJsonc fails, the error it raises carries the decoder's
\* message together with the line and column of the failure position and
\* an excerpt of the text around it.
C8_ErrorHasPosition ==
    (rdPc = "parsed" /\ ~result.returned)
        => /\ Includes(result.error.message, "Unexpected")
           /\ CarriesPosition(result.error, result.console)

-----------------------------------------------------------------------------
(* Source-to-model extractor: the regular expressions of parseZodCode.      *)
(* A position 0 says that the pattern has not matched so far.               *)

QuoteChars == {"'", "\""}

\* a literal text at position at: the position after it
Lit(s, at, t) == IF at # 0 /\ StartsAt(s, t, at) THEN at + Len(t) ELSE 0
\* \s* at position at
Spaces0(s, at) == IF at = 0 THEN 0 ELSE SkipIn(s, at, SpaceChars)
\* \s+ at position at
Spaces1(s, at) ==
    IF at # 0 /\ SkipIn(s, at, SpaceChars) > at THEN SkipIn(s, at, SpaceChars) ELSE 0
\* \w+ at position at
Word1(s, at) ==
    IF at # 0 /\ SkipIn(s, at, WordChars) > at THEN SkipIn(s, at, WordChars) ELSE 0
\* one of ['"] at position at
Quote1(s, at) == IF at # 0 /\ At(s, at) \in QuoteChars THEN at + 1 ELSE 0

\* .*? can take the text s[from..to-1]: it holds no line terminator
SameLine(s, from, to) == SkipTo(s, from, LineTerminators) >= to

NoMatch == [ok |-> FALSE]

RECURSIVE ImportSource(_, _, _)
\* for import\s+.*?from\s+['"].*?['"];? with import\s+ ending before a: the
\* position after the match whose `from` is the first at or after f that
\* lets the rest match, 0 when there is none
ImportSourceAt(s, a, f, q) ==
    IF q # 0 /\ SkipTo(s, q, QuoteChars \cup LineTerminators) <= Len(s)
             /\ At(s, SkipTo(s, q, QuoteChars \cup LineTerminators)) \in QuoteChars
    THEN SkipTo(s, q, QuoteChars) + 1
    ELSE ImportSource(s, a, f + 1)

ImportFrom(s, a, f) ==
    IF f = 0 \/ ~SameLine(s, a, f) THEN 0
    ELSE ImportSourceAt(s, a, f, Quote1(s, Spaces1(s, f + Len("from"))))

ImportSource(s, a, f) == ImportFrom(s, a, IndexFrom(s, "from", f))

\* the position after the import statement that starts at i, 0 when none does
ImportEnd(s, i) ==
    IF Spaces1(s, Lit(s, i, "import")) = 0 THEN 0
    ELSE ImportSource(s, Spaces1(s, Lit(s, i, "import")),
                      Spaces1(s, Lit(s, i, "import")))

ImportStripped(s, st, end) ==
    IF end = 0 THEN Copied(s, st)
    ELSE Replaced(st, "", IF At(s, end) = ";" THEN end ELSE end - 1)

\* one position of zodCode.replace(/import\s+.*?from\s+['"].*?['"];?/g, '')
stripImports(s, st) ==
    IF st.i > Len(s) THEN st
    ELSE IF At(s, st.i) # "i" THEN Copied(s, st)
    ELSE ImportStripped(s, st, ImportEnd(s, st.i))

\* the end of (.*?)(?=;|\n|$) from position r: the first ; or line
\* terminator, or the end of the text
DeclarationRhs(s, n, e, r, stop) ==
    IF r = 0 \/ At(s, stop) \in LineTerminators \ {"\n"} THEN NoMatch
    ELSE [ok |-> TRUE, name |-> SubSeq(s, n, e - 1), rhs |-> SubSeq(s, r, stop - 1)]

DeclarationName(s, n, e) ==
    DeclarationRhs(s, n, e, Lit(s, Spaces0(s, Lit(s, Spaces0(s, e), "=")), "z."),
                   SkipTo(s, Lit(s, Spaces0(s, Lit(s, Spaces0(s, e), "=")), "z."),
                          {";"} \cup LineTerminators))

\* const\s+(\w+)\s*=\s*z\.(.*?)(?=;|\n|$) at position c: the name and the
\* right-hand side after "z."
ConstAt(s, c) ==
    IF Word1(s, Spaces1(s, Lit(s, c, "const"))) = 0 THEN NoMatch
    ELSE DeclarationName(s, Spaces1(s, Lit(s, c, "const")),
                         Word1(s, Spaces1(s, Lit(s, c, "const"))))

\* export\s+const\s+(\w+)\s*=\s*z\.(.*?)(?=;|\n|$) at position x
ExportAt(s, x) ==
    IF Spaces1(s, Lit(s, x, "export")) = 0 THEN NoMatch
    ELSE ConstAt(s, Spaces1(s, Lit(s, x, "export")))

RECURSIVE constMatch(_, _)
constMatchAt(s, c, m) == IF m.ok THEN m ELSE constMatch(s, c + 1)
constMatchFrom(s, c) == IF c = 0 THEN NoMatch ELSE constMatchAt(s, c, ConstAt(s, c))
\* cleanedCode.match(/const\s+.../): the first match at or after position i
constMatch(s, i) == constMatchFrom(s, IndexFrom(s, "const", i))

RECURSIVE exportMatch(_, _)
exportMatchAt(s, x, m) == IF m.ok THEN m ELSE exportMatch(s, x + 1)
exportMatchFrom(s, x) == IF x = 0 THEN NoMatch ELSE exportMatchAt(s, x, ExportAt(s, x))
\* cleanedCode.match(/export\s+const\s+.../): the first match at or after i
exportMatch(s, i) == exportMatchFrom(s, IndexFrom(s, "export", i))

\* a classification that looks for the primitives before object( and array(
primitivesFirst(schemaCode) ==
    IF Includes(schemaCode, "string()") THEN Str("string")
    ELSE IF Includes(schemaCode, "number()") THEN Str("number")
    ELSE IF Includes(schemaCode, "boolean()") THEN Str("boolean")
    ELSE IF Includes(schemaCode, "date()") THEN Str("date")
    ELSE IF Includes(schemaCode, "object(") THEN Str("object")
    ELSE IF Includes(schemaCode, "array(") THEN Str("array")
    ELSE IF Includes(schemaCode, "union(") THEN Str("union")
    ELSE IF Includes(schemaCode, "enum(") THEN Str("enum")
    ELSE IF Includes(schemaCode, "literal(") THEN Str("literal")
    ELSE IF Includes(schemaCode, "nullable()") THEN Str("nullable")
    ELSE IF Includes(schemaCode, "optional()") THEN Str("optional")
    ELSE IF Includes(schemaCode, "null()") THEN Str("null")
    ELSE IF Includes(schemaCode, "undefined()") THEN Str("undefined")
    ELSE IF Includes(schemaCode, "bigint()") THEN Str("bigint")
    ELSE Null

\* identifySchemaType(schemaCode): the type, or null
identifySchemaType(schemaCode) ==
    IF Includes(schemaCode, "object(") THEN Str("object")
    ELSE IF Includes(schemaCode, "array(") THEN Str("array")
    ELSE IF Includes(schemaCode, "string()") THEN Str("string")
    ELSE IF Includes(schemaCode, "number()") THEN Str("number")
    ELSE IF Includes(schemaCode, "boolean()") THEN Str("boolean")
    ELSE IF Includes(schemaCode, "date()") THEN Str("date")
    ELSE IF Includes(schemaCode, "enum(") THEN Str("enum")
    ELSE IF Includes(schemaCode, "literal(") THEN Str("literal")
    ELSE IF Includes(schemaCode, "nullable()") THEN Str("nullable")
    ELSE IF Includes(schemaCode, "optional()") THEN Str("optional")
    ELSE IF Includes(schemaCode, "union(") THEN Str("union")
    ELSE IF Includes(schemaCode, "null()") THEN Str("null")
    ELSE IF Includes(schemaCode, "undefined()") THEN Str("undefined")
    ELSE IF Includes(schemaCode, "bigint()") THEN Str("bigint")
    ELSE Null

RECURSIVE DescriptionEnd(_, _)
DescriptionEndAt(s, h) ==
    IF At(s, h) \notin QuoteChars THEN 0
    ELSE IF At(s, h + 1) = ")" THEN h
    ELSE DescriptionEnd(s, h + 1)
\* for (.*?)['"]\) from position g: the first quote on the line that a )
\* follows, 0 when there is none
DescriptionEnd(s, g) ==
    DescriptionEndAt(s, SkipTo(s, g, QuoteChars \cup LineTerminators))

RECURSIVE DescriptionCall(_, _, _)
DescriptionText(s, a, d, g, h) ==
    IF g = 0 \/ h = 0 THEN DescriptionCall(s, a, d + 1)
    ELSE [ok |-> TRUE, text |-> SubSeq(s, g, h - 1)]
DescriptionCallAt(s, a, d) ==
    IF d = 0 \/ ~SameLine(s, a, d) THEN NoMatch
    ELSE DescriptionText(s, a, d, Quote1(s, d + Len(".description(")),
                         DescriptionEnd(s, d + Len(".description(") + 1))
\* for .*?\.description\(['"](.*?)['"]\) after a name that ends before a:
\* the match with the first .description( at or after d
DescriptionCall(s, a, d) == DescriptionCallAt(s, a, IndexFrom(s, ".description(", d))

RECURSIVE descMatch(_, _, _)
descMatchAt(s, name, p, m) == IF m.ok THEN m ELSE descMatch(s, name, p + 1)
descMatchFrom(s, name, p) ==
    IF p = 0 THEN NoMatch
    ELSE descMatchAt(s, name, p,
                     DescriptionCall(s, p + Len(name), p + Len(name)))
\* cleanedCode.match(new RegExp(`${name}.*?\\.description\\(['"](.*?)['"]\\)`)),
\* the first match at or after position i
descMatch(s, name, i) == descMatchFrom(s, name, IndexFrom(s, name, i))

\* descMatch ? descMatch[1] : undefined
descriptionOf(m) == IF m.ok THEN Str(m.text) ELSE Undefined

\* the sub-schemas extractSchemaPropertiesFromExample knows, by property name
ExampleProperty(propName) ==
    CASE propName = "platform" ->
           Node("literal", Field("literal", Str("tiktok"))
                    \o Field("description", Str("Social platform identifier")))
      [] propName = "template_version" ->
           Node("string", Field("description", Str("Schema version")))
      [] propName = "post_id" ->
           Node("string", Field("nullable", Bool(TRUE))
                    \o Field("description", Str("Unique TikTok post ID")))
      [] propName = "author" ->
           Node("object",
                Field("properties", Obj(
                    Field("id", Node("string",
                        Field("description", Str("Author's TikTok ID"))))
                    \o Field("uniqueId", Node("string",
                        Field("description", Str("Author's @ handle"))))
                    \o Field("nickname", Node("string",
                        Field("description", Str("Display name"))))))
                \o Field("description", Str("Post author metadata")))
      [] propName = "dimensions" ->
           Node("object",
                Field("properties", Obj(
                    Field("width", Node("number",
                        Field("description", Str("Content width in pixels"))))
                    \o Field("height", Node("number",
                        Field("description", Str("Content height in pixels"))))))
                \o Field("description", Str("Overall post dimensions")))
      [] propName = "slide_count" ->
           Node("number", Field("description", Str("Number of image slides")))

ExamplePropertyNames ==
    <<"platform", "template_version", "post_id", "author", "dimensions",
      "slide_count">>

\* the alternative of (platform|...|slide_count): that matches at position
\* i, 0 when none does
PropertyAt(s, i) ==
    IF \E n \in 1..Len(ExamplePropertyNames) :
            StartsAt(s, ExamplePropertyNames[n] \o ":", i)
    THEN CHOOSE n \in 1..Len(ExamplePropertyNames) :
            StartsAt(s, ExamplePropertyNames[n] \o ":", i)
    ELSE 0

PropertyFound(st, n) ==
    IF n = 0 THEN [st EXCEPT !.i = @ + 1]
    ELSE [i |-> st.i + Len(ExamplePropertyNames[n]) + 1,
          properties |-> Put(st.properties, ExamplePropertyNames[n],
                             ExampleProperty(ExamplePropertyNames[n]))]

\* one iteration of the while loop over propertyMatch.exec(code)
propertyMatch(s, st) ==
    IF st.i > Len(s) THEN st ELSE PropertyFound(st, PropertyAt(s, st.i))

extractSchemaPropertiesFromExample(code) ==
    Obj(Loop(propertyMatch, code, [i |-> 1, properties |-> <<>>]).properties)

\* a node with a description and nothing else, as the reference schema
\* writes it
Described(type, description) == Node(type, Field("description", Str(description)))
NullableDescribed(type, description) ==
    Node(type, Field("nullable", Bool(TRUE)) \o Field("description", Str(description)))

TikTokAuthor ==
    Node("object",
         Field("description", Str("Post author metadata"))
         \o Field("properties", Obj(
                Field("id", Described("string", "Author's TikTok ID"))
                \o Field("uniqueId", Described("string", "Author's @ handle"))
                \o Field("nickname", Described("string", "Display name")))))

TikTokDimensions ==
    Node("object",
         Field("description", Str("Overall post dimensions"))
         \o Field("properties", Obj(
                Field("width", Described("number", "Content width in pixels"))
                \o Field("height", Described("number", "Content height in pixels")))))

TikTokHashtagAnalysis ==
    Node("object",
         Field("description", Str("Extracted hashtag details"))
         \o Field("properties", Obj(
                Field("hashtags",
                      Node("array",
                           Field("items", Node("string", <<>>))
                           \o Field("description",
                                    Str("List of extracted hashtags from the caption"))))
                \o Field("strategy",
                         NullableDescribed("string",
                             "Why these hashtags were chosen (e.g. audience targeting)")))))

TikTokCaptionSegment ==
    Node("object",
         Field("properties", Obj(
             Field("type",
                   Node("enum",
                        Field("enum", Arr(<<Str("hook"), Str("body"), Str("cta")>>))
                        \o Field("description",
                                 Str("Segment role: attention-grabber, body text, or call-to-action"))))
             \o Field("content",
                      NullableDescribed("string", "Text of this caption segment"))
             \o Field("rationale",
                      NullableDescribed("string", "Why this segment works in its role"))
             \o Field("position_in_caption",
                      Described("number",
                                "Order index of this segment within the full caption")))))

\* the pre-built reference schema
extractTikTokSchema ==
    Node("object",
         Field("description", Str("Complete analysis schema for a TikTok image post"))
         \o Field("properties", Obj(
                Field("platform",
                      Node("literal",
                           Field("literal", Str("tiktok"))
                           \o Field("description", Str("Social platform identifier"))))
                \o Field("template_version", Described("string", "Schema version"))
                \o Field("post_id", NullableDescribed("string", "Unique TikTok post ID"))
                \o Field("author", TikTokAuthor)
                \o Field("dimensions", TikTokDimensions)
                \o Field("slide_count", Described("number", "Number of image slides"))
                \o Field("hashtag_analysis", TikTokHashtagAnalysis)
                \o Field("caption_segments",
                         Node("array",
                              Field("description",
                                    Str("Hook/Body/CTA segments of the caption"))
                              \o Field("items", TikTokCaptionSegment))))))

extractObjectProperties(objectCode) ==
    Obj(Field("example", Node("string", Field("description", Str("Example property")))))

extractArrayItemType(arrayCode) == Node("string", <<>>)

\* a direct-schema reader that knows object schemas only
directObjectOnly(schemaCode) ==
    IF Includes(schemaCode, "z.object(")
    THEN Node("object", Field("properties", extractObjectProperties(schemaCode)))
    ELSE Null

parseDirectSchema(schemaCode) ==
    IF Includes(schemaCode, "z.object(")
    THEN Node("object", Field("properties", extractObjectProperties(schemaCode)))
    ELSE IF Includes(schemaCode, "z.array(")
    THEN Node("array", Field("items", extractArrayItemType(schemaCode)))
    ELSE IF Includes(schemaCode, "z.string()") THEN Node("string", <<>>)
    ELSE IF Includes(schemaCode, "z.number()") THEN Node("number", <<>>)
    ELSE IF Includes(schemaCode, "z.boolean()") THEN Node("boolean", <<>>)
    ELSE Null

\* mainSchemaMatch = { type: schemaType, description }, with the properties
\* of an object; null stays when the declaration has no known type
declaredSchema(cleanedCode, name, schemaType) ==
    IF schemaType = Null THEN Null
    ELSE Obj(<<<<"type", schemaType>>,
               <<"description", descriptionOf(descMatch(cleanedCode, name, 1))>>>>
             \o IF schemaType = Str("object")
                THEN Field("properties", extractSchemaPropertiesFromExample(cleanedCode))
                ELSE <<>>)

\* the block under if (exportMatch) and under if (schemaMatch)
fromDeclaration(cleanedCode, m) ==
    IF ~m.ok THEN Null
    ELSE declaredSchema(cleanedCode, m.name, identifySchemaType(m.rhs))

\* what the body of the try block ends with
TryReturned(value) == [threw |-> FALSE, value |-> value]
TryThrew(message) == [threw |-> TRUE, message |-> message]

\* from if (mainSchemaMatch) return ... to the throw
returnOrFallBack(cleanedCode, mainSchemaMatch) ==
    IF mainSchemaMatch # Null THEN TryReturned(mainSchemaMatch)
    ELSE IF \/ Includes(cleanedCode, "TikTokPostSchema")
            \/ Includes(cleanedCode, "platform")
            \/ Includes(cleanedCode, "template_version")
    THEN TryReturned(extractTikTokSchema)
    ELSE TryThrew("Couldn't find a valid Zod schema in the provided code")

\* the test for a direct schema definition
tryDirect(cleanedCode, mainSchemaMatch) ==
    returnOrFallBack(cleanedCode,
        IF /\ mainSchemaMatch = Null
           /\ \/ Includes(cleanedCode, "z.object(")
              \/ Includes(cleanedCode, "z.array(")
              \/ Includes(cleanedCode, "z.string()")
              \/ Includes(cleanedCode, "z.number()")
        THEN parseDirectSchema(cleanedCode)
        ELSE mainSchemaMatch)

\* the search for any declaration, made when the exported one gave nothing
tryConst(cleanedCode, mainSchemaMatch) ==
    tryDirect(cleanedCode,
        IF mainSchemaMatch = Null
        THEN fromDeclaration(cleanedCode, constMatch(cleanedCode, 1))
        ELSE mainSchemaMatch)

\* a search that does not look for an exported declaration first
tryAnyDeclaration(cleanedCode) == tryConst(cleanedCode, Null)

tryExport(cleanedCode) ==
    tryConst(cleanedCode, fromDeclaration(cleanedCode, exportMatch(cleanedCode, 1)))

\* the catch block: the error is logged and null returned
caught(attempt) ==
    [returned |-> TRUE,
     value |-> IF attempt.threw THEN Null ELSE attempt.value,
     logged |-> attempt.threw]

\* zodCode.replace(/import\s+.*?from\s+['"].*?['"];?/g, '')
cleanedCode(code) == Loop(stripImports, code, ReplaceStart).out

\* parseZodCode(zodCode): what it returns to its caller
parseZodCode(code) == caught(tryExport(cleanedCode(code)))

-----------------------------------------------------------------------------
(* The nodes of the model, as the interface ZodToJsonSchema declares them *)

ZodType ==
    {"string", "number", "boolean", "null", "undefined", "bigint", "date",
     "enum", "array", "object", "union", "literal", "nullable", "optional"}

RECURSIVE IsZodToJsonSchema(_)
\* the member named k of the interface can hold x
MemberOk(k, x) ==
    CASE k = "type" -> IsStr(x) /\ x.str \in ZodType
      [] k = "description" -> x.t \in {"string", "undefined"}
      [] k \in {"nullable", "optional"} -> x.t \in {"boolean", "undefined"}
      [] k = "properties" ->
            IsObj(x) /\ \A i \in 1..Len(x.entries) : IsZodToJsonSchema(x.entries[i][2])
      [] k \in {"items", "values"} -> IsZodToJsonSchema(x)
      [] k = "enum" -> IsArr(x)
      [] k = "unionTypes" ->
            IsArr(x) /\ \A i \in 1..Len(x.items) : IsZodToJsonSchema(x.items[i])
      [] k = "literal" -> TRUE
      [] OTHER -> FALSE

IsZodToJsonSchema(x) ==
    /\ IsObj(x)
    /\ HasKey(x.entries, "type")
    /\ \A i \in 1..Len(x.entries) : MemberOk(x.entries[i][1], x.entries[i][2])

-----------------------------------------------------------------------------
(* The extractor driven by the App component: source text is typed into the *)
(* editor line by line and converted.                                       *)

MaxLines == 2

SourceLines ==
    {"import { z } from 'zod';",
     "export const B = z.string().description(\"d\");",
     "export const E = z.foo()",
     "export const D = z.boolean()",
     "const A = z.number();",
     "const C = z.boolean()",
     "const X = z.string().nullable()",
     "const X = z.number().optional()",
     "const Y = z.any().nullable()",
     "const U = z.union([z.string(), z.number()])",
     "const L = z.array(z.object({}))",
     "const X = z.object({ a: z.string().description(\"A\") })",
     "z.string()",
     "z.boolean()",
     "z.object({ platform: z.literal('tiktok') })",
     "z.object({ a: z.string().description(\"A\") })",
     "z.date()",
     "platform",
     "template_version",
     "hello",
     " "}

LineCount(s) == Cardinality({i \in 1..Len(s) : At(s, i) = "\n"}) + 1

ExtractorInit ==
    /\ zodSource \in SourceLines
    /\ extracted = NoValue
    /\ targetCode = ""
    /\ error = Null
    /\ exPc = "editing"

\* onChange of the source editor, for one more line typed at the end
setSourceCode ==
    /\ exPc = "editing"
    /\ LineCount(zodSource) < MaxLines
    /\ \E line \in SourceLines : zodSource' = zodSource \o "\n" \o line
    /\ UNCHANGED <<extracted, targetCode, error, exPc>>

ConversionError(message) == Str("Error during conversion: " \o message)

\* what handleConvert shows for the node parseZodCode returned
shown(jsonSchema, comments) ==
    IF ~Truthy(jsonSchema)
    THEN [targetCode |-> "",
          error |-> ConversionError(
              "Failed to parse Zod schema. Make sure you're providing a valid schema. "
              \o "For complex schemas with imports, ensure there is an exported schema "
              \o "using \"export const YourSchema = ...\"")]
    ELSE [targetCode |-> generateJsonOutput(jsonSchema, comments), error |-> Null]

\* handleConvert in the direction zod-to-json
handleConvert ==
    /\ exPc = "editing"
    /\ IF Trim(zodSource) = ""
       THEN /\ extracted' = NoValue
            /\ targetCode' = ""
            /\ error' = ConversionError("Please enter a Zod schema to convert")
            /\ exPc' = "refused"
       ELSE /\ extracted' = parseZodCode(zodSource)
            /\ \E comments \in BOOLEAN :
                 /\ targetCode' = shown(extracted'.value, comments).targetCode
                 /\ error' = shown(extracted'.value, comments).error
            /\ exPc' = "done"
    /\ UNCHANGED zodSource

InitExtract == RoundTripIdle /\ ReaderIdle /\ ExtractorInit /\ JsonToZodIdle /\ AppIdle /\ FormatIdle

NextExtract ==
    \/ setSourceCode /\ UNCHANGED <<rtVars, rdVars, jzVars, apVars, fmVars>>
    \/ handleConvert /\ UNCHANGED <<rtVars, rdVars, jzVars, apVars, fmVars>>

SpecExtract == InitExtract /\ [][NextExtract]_vars

-----------------------------------------------------------------------------
(* Claims about the extractor *)

\* the declaration the pattern matched has a constructor of the table
DeclarationRecognised(m) == m.ok /\ identifySchemaType(m.rhs) # Null

BareCallRecognised(code) ==
    \/ Includes(code, "z.object(")
    \/ Includes(code, "z.array(")
    \/ Includes(code, "z.string()")
    \/ Includes(code, "z.number()")

ReferenceTokenRecognised(code) ==
    \/ Includes(code, "TikTokPostSchema")
    \/ Includes(code, "platform")
    \/ Includes(code, "template_version")

Recognised(code) ==
    \/ DeclarationRecognised(exportMatch(code, 1))
    \/ DeclarationRecognised(constMatch(code, 1))
    \/ BareCallRecognised(code)
    \/ ReferenceTokenRecognised(code)

\* C9: parseZodCode never raises to its caller: it returns a complete model
\* node or null, null exactly when no exported declaration, no other
\* declaration, no bare constructor call and no reference-schema token is
\* recognised, and after a failure inside it nothing but null comes out.
C9_NodeOrNothing ==
    exPc = "done"
        => /\ extracted.returned
           /\ extracted.value = Null \/ IsZodToJsonSchema(extracted.value)
           /\ extracted.value = Null <=> ~Recognised(cleanedCode(zodSource))
           /\ extracted.logged => extracted.value = Null

C9_Witness ==
    /\ exPc = "done"
    /\ zodSource = "export const E = z.foo()\nz.boolean()"
    /\ extracted.returned /\ extracted.value = Null /\ extracted.logged
    /\ targetCode = ""

ModifierDeclarations ==
    {[code |-> "const X = z.string().nullable()", type |-> "string",
      modifier |-> "nullable"],
     [code |-> "const X = z.number().optional()", type |-> "number",
      modifier |-> "optional"]}

KeepsModifier(d, node, doc) ==
    /\ node # Null
    /\ Get(node, "type") = Str(d.type)
    /\ Get(node, d.modifier) = Bool(TRUE)
    /\ Includes(doc, "\"" \o d.modifier \o "\": true")

\* C10: for a declaration such as const X = z.string().nullable() or
\* const X = z.number().optional() the node parseZodCode returns has the base
\* kind with nullable (optional) set to true, and the generated document
\* carries "nullable": true ("optional": true).
C10_ModifiersKept ==
    \A d \in ModifierDeclarations :
        (exPc = "done" /\ zodSource = d.code)
            => KeepsModifier(d, extracted.value, targetCode)

\* C11: modifiers are only ever boolean flags: no node returned by
\* parseZodCode, for any source text, has its kind (type) equal to
\* 'nullable' or 'optional'.
C11_ModifiersAreFlags ==
    (exPc = "done" /\ extracted.value # Null)
        => Get(extracted.value, "type") \notin {Str("nullable"), Str("optional")}

\* the document is the record r and nothing else
IsDocument(text, r) == JSONParse(text).ok /\ JSONParse(text).value = r

C13_BareObject ==
    (exPc = "done" /\ zodSource = "z.object({ a: z.string().description(\"A\") })")
        => /\ extracted.value # Null
           /\ IsDocument(generateJsonOutput(extracted.value, FALSE),
                  Obj(Field("type", Str("object"))
                      \o Field("properties", Obj(Field("a",
                             Obj(Field("type", Str("string"))
                                 \o Field("description", Str("A"))))))))
           /\ Includes(generateJsonOutput(extracted.value, TRUE), "// A")
           /\ targetCode \in {generateJsonOutput(extracted.value, TRUE),
                              generateJsonOutput(extracted.value, FALSE)}

-----------------------------------------------------------------------------
(* Claims about the generated document *)

\* the field of the record text opens a bracketed list, not a record
FieldIsList(text, name) ==
    /\ Includes(text, "\"" \o name \o "\": [")
    /\ ~Includes(text, "\"" \o name \o "\": {")

\* C14: in the text produced by generateJsonOutput, with includeComments
\* true as well as false, an enum node's enum field is an ordered sequence
\* (bracketed list) of its values and a union node's oneOf field is an
\* ordered sequence of the generated member records; neither is rendered as
\* a record keyed by position.
C14_SequencesAreLists ==
    rtPc = "document"
        => /\ (Get(schema, "type") = Str("enum") /\ Truthy(Get(schema, "enum")))
                => FieldIsList(jsonOutput, "enum")
           /\ (Get(schema, "type") = Str("union") /\ Truthy(Get(schema, "unionTypes")))
                => FieldIsList(jsonOutput, "oneOf")

\* C15: with includeComments = true, for every node that carries a
\* description, generateJsonOutput emits the line // <description>
\* immediately after the opening brace of that node's record and before the
\* record's first field (before "type").
C15_CommentLeadsRecord ==
    (rtPc = "document" /\ includeComments /\ Truthy(Get(schema, "description")))
        => StartsAt(jsonOutput,
                    "{\n  // " \o Get(schema, "description").str \o "\n  \"type\":", 1)

\* C16: for every model node and includeComments = true, removing the
\* comment lines from the text produced by generateJsonOutput leaves a
\* strictly valid structured document: no comma is directly followed by a
\* closing } or ], including for a node whose description is its last field.
C16_ValidWithoutComments ==
    (rtPc = "document" /\ includeComments)
        => JSONParse(removeComments(jsonOutput)).ok

-----------------------------------------------------------------------------
(* The document-to-source direction of the App: a document is in the editor, *)
(* its author may write a comment into it, and handleConvert converts it.    *)

\* nodes beyond those of the round trip: tags outside the rendered set, the
\* array of numbers, property names that are not plain words, and nodes
\* without the field their kind goes with, a node whose flags are false and
\* whose description is empty, and a node two levels down
ExtraNodes ==
    UNION {Modified(Node(t, <<>>)) : t \in {"nullable", "optional", "tuple"}}
    \cup {ArrayOf(Node("number", <<>>)),
          ObjectOf(<<<<"b", Node("string", <<>>)>>, <<"1", Node("number", <<>>)>>>>),
          ObjectOf(<<<<"my-key", Node("boolean", Field("optional", Bool(TRUE)))>>>>),
          Node("array", <<>>), Node("object", <<>>), Node("enum", <<>>),
          Node("union", <<>>),
          Node("string", Field("description", Str("")) \o Field("nullable", Bool(FALSE))
                           \o Field("optional", Bool(FALSE))),
          ArrayOf(ArrayOf(Node("number", Field("nullable", Bool(TRUE))
                                           \o Field("optional", Bool(TRUE)))))}

JsonDocuments == {Stringify(n, "", 0) : n \in Nodes \cup ExtraNodes}

Notes == {"text"}

JsonToZodInit ==
    /\ jsonSource \in JsonDocuments
    /\ note = ""
    /\ decoded = NoOutcome
    /\ rendered = Threw
    /\ jsonTarget = ""
    /\ jsonError = Null
    /\ jzPc = "editing"

\* the author writes a line comment after the opening brace of the record
WriteComment ==
    /\ jzPc = "editing"
    /\ note = ""
    /\ \E text \in Notes :
         /\ note' = text
         /\ jsonSource' = "{\n  // " \o text \o "\n" \o From(jsonSource, 2)
    /\ UNCHANGED <<decoded, rendered, jsonTarget, jsonError, jzPc>>

\* the message of the TypeError a property read of null or undefined raises
TypeErrorMessage == "Cannot read properties of null (reading 'type')"

\* handleConvert in the direction json-to-zod
handleConvertJson ==
    /\ jzPc = "editing"
    /\ decoded' = parseJsonc(jsonSource)
    /\ rendered' = IF decoded'.returned THEN jsonToZod(decoded'.value) ELSE Threw
    /\ jsonTarget' = IF rendered'.ok THEN formatZodCode(rendered'.text) ELSE ""
    /\ jsonError' =
         IF ~decoded'.returned
         THEN ConversionError("Invalid JSON: " \o decoded'.error.message)
         ELSE IF ~rendered'.ok
         THEN ConversionError("Invalid JSON: " \o TypeErrorMessage)
         ELSE Null
    /\ jzPc' = "done"
    /\ UNCHANGED <<jsonSource, note>>

InitJsonToZod == RoundTripIdle /\ ReaderIdle /\ ExtractorIdle /\ JsonToZodInit /\ AppIdle /\ FormatIdle

NextJsonToZod ==
    \/ WriteComment /\ UNCHANGED <<rtVars, rdVars, exVars, apVars, fmVars>>
    \/ handleConvertJson /\ UNCHANGED <<rtVars, rdVars, exVars, apVars, fmVars>>

SpecJsonToZod == InitJsonToZod /\ [][NextJsonToZod]_vars

-----------------------------------------------------------------------------
(* Claims about the document-to-source direction *)

EndsWith(s, t) == Len(t) <= Len(s) /\ SubSeq(s, Len(s) - Len(t) + 1, Len(s)) = t

\* C17: in the JSON-to-Zod direction a comment in the JSONC input becomes a
\* Zod description: for a node record that has a // text comment and no
\* description field, the generated source for that node ends with
\* .description("text").
C17_CommentBecomesDescription ==
    (jzPc = "done" /\ note # "" /\ decoded.returned
        /\ ~HasKey(decoded.value.entries, "description"))
        => /\ rendered.ok
           /\ EndsWith(rendered.text, ".description(\"" \o note \o "\")")

\* the kinds jsonToZod has a construct for
RenderedTypes ==
    PrimitiveTypes \cup {"literal", "enum", "array", "object", "union"}

\* the modifier calls a node asks for, in the order nullable, optional,
\* description
ModifierCalls(node) ==
    (IF Get(node, "nullable") = Bool(TRUE) THEN ".nullable()" ELSE "")
    \o (IF Get(node, "optional") = Bool(TRUE) THEN ".optional()" ELSE "")
    \o (IF IsStr(Get(node, "description")) /\ Get(node, "description").str # ""
        THEN ".description(\"" \o Get(node, "description").str \o "\")"
        ELSE "")

\* C18: jsonToZod is total over model nodes: for every node, including one
\* whose type is outside the rendered set (an unknown tag, or the tags
\* 'nullable' and 'optional'), it returns source text without raising, and
\* the base construct for such a node is z.any(), followed by the node's
\* modifier calls.
C18_TotalWithFallback ==
    (jzPc = "done" /\ decoded.returned)
        => /\ rendered.ok
           /\ jsonError = Null
           /\ Get(decoded.value, "type").str \notin RenderedTypes
                => rendered.text = "z.any()" \o ModifierCalls(decoded.value)

C18_Witness ==
    /\ jzPc = "done"
    /\ jsonSource = "{\"type\":\"nullable\",\"description\":\"A note\",\"nullable\":true}"
    /\ rendered = Returned("z.any().nullable().description(\"A note\")")
    /\ jsonTarget = "z.any().nullable().description(\"A note\")"

\* a value in its JSON text form
JsonText(v) ==
    CASE v.t = "string" -> "\"" \o v.str \o "\""
      [] v.t = "number" -> NatToString(v.num)
      [] v.t = "boolean" -> (IF v.bool THEN "true" ELSE "false")
      [] OTHER -> "null"

\* the node has the field its kind goes with, and so have the nodes in it
RECURSIVE Complete(_)
Complete(n) ==
    LET type == Get(n, "type").str
    IN  CASE type \in PrimitiveTypes -> TRUE
          [] type = "literal" -> HasKey(n.entries, "literal")
          [] type = "enum" -> HasKey(n.entries, "enum")
          [] type = "array" ->
               HasKey(n.entries, "items") /\ Complete(Get(n, "items"))
          [] type = "object" ->
               /\ HasKey(n.entries, "properties")
               /\ \A i \in 1..Len(Get(n, "properties").entries) :
                     Complete(Get(n, "properties").entries[i][2])
          [] type = "union" ->
               /\ HasKey(n.entries, "unionTypes")
               /\ Len(Get(n, "unionTypes").items) > 0
               /\ \A i \in 1..Len(Get(n, "unionTypes").items) :
                     Complete(Get(n, "unionTypes").items[i])
          [] OTHER -> FALSE

\* the rendering table, kind by kind, with the modifier calls after it
RECURSIVE TableRendering(_)
TableRendering(n) ==
    LET type == Get(n, "type").str
        values == Get(n, "enum").items
        properties == Get(n, "properties").entries
        members == Get(n, "unionTypes").items
        base ==
          CASE type \in PrimitiveTypes -> "z." \o type \o "()"
            [] type = "literal" -> "z.literal(" \o JsonText(Get(n, "literal")) \o ")"
            [] type = "enum" ->
                 "z.enum([" \o JoinWith([i \in 1..Len(values) |-> JsonText(values[i])],
                                        ", ") \o "])"
            [] type = "array" -> "z.array(" \o TableRendering(Get(n, "items")) \o ")"
            [] type = "object" ->
                 "z.object({\n  "
                 \o JoinWith([i \in 1..Len(properties) |->
                        properties[i][1] \o ": "
                        \o TableRendering(properties[i][2])], ",\n  ")
                 \o "\n})"
            [] type = "union" ->
                 "z.union([" \o JoinWith([i \in 1..Len(members) |->
                                  TableRendering(members[i])], ", ") \o "])"
    IN  base \o ModifierCalls(n)

ArrayOfNumbers == "{\"type\":\"array\",\"items\":{\"type\":\"number\"}}"

\* C19: jsonToZod follows the per-kind rendering table for every node: a
\* primitive renders as z.<kind>(); a literal renders z.literal(v) with a
\* string v in double quotes and any other v in its JSON text form; an enum
\* renders z.enum([...]) with its values in order; an array renders
\* z.array(<rendering of items>), so the document
\* {"type":"array","items":{"type":"number"}} converts (after re-indentation)
\* to exactly z.array(z.number()); an object renders its properties as
\* name: <rendered child> entries in the order of the model's property
\* mapping, for every property name; a union renders z.union([...]) with its
\* members in order.
C19_RenderingTable ==
    /\ (jzPc = "done" /\ decoded.returned /\ Complete(decoded.value))
          => rendered = Returned(TableRendering(decoded.value))
    /\ (jzPc = "done" /\ jsonSource = ArrayOfNumbers)
          => jsonTarget = "z.array(z.number())"

C19_Witness ==
    /\ jzPc = "done"
    /\ decoded.returned
    /\ Get(decoded.value, "type") = Str("object")
    /\ HasKey(decoded.value.entries, "properties")
    /\ Len(Get(decoded.value, "properties").entries) = 2
    /\ Get(decoded.value, "properties").entries[2][1] = "b"
    /\ Get(Get(decoded.value, "properties").entries[2][2], "type") = Str("enum")
    /\ rendered.ok
    /\ Includes(rendered.text, "b: z.enum([\"b\", \"a\"])")

\* the nodes directly inside a node
ChildNodes(n) ==
    (IF HasKey(n.entries, "items") THEN {Get(n, "items")} ELSE {})
    \cup (IF HasKey(n.entries, "properties")
          THEN {Get(n, "properties").entries[i][2] :
                  i \in 1..Len(Get(n, "properties").entries)}
          ELSE {})
    \cup (IF HasKey(n.entries, "unionTypes")
          THEN {Get(n, "unionTypes").items[i] :
                  i \in 1..Len(Get(n, "unionTypes").items)}
          ELSE {})

RECURSIVE NodesIn(_)
\* a node and the nodes at every nesting level inside it
NodesIn(n) == {n} \cup UNION {NodesIn(k) : k \in ChildNodes(n)}

IsBaseField(entry) == entry[1] \notin {"nullable", "optional", "description"}

\* the node without its modifiers
Stripped(n) == Obj(SelectSeq(n.entries, IsBaseField))

\* C20: for every node at every nesting level, the modifier calls emitted by
\* jsonToZod after the base construct appear in the fixed order .nullable(),
\* then .optional(), then .description("..."), each present exactly when the
\* node's nullable flag is true, its optional flag is true, or its
\* description is non-empty, respectively.
C20_ModifierOrder ==
    (jzPc = "done" /\ decoded.returned)
        => \A n \in NodesIn(decoded.value) :
              /\ jsonToZod(n) =
                   Returned(jsonToZod(Stripped(n)).text \o ModifierCalls(n))
              /\ Includes(rendered.text, jsonToZod(n).text)

C20_Witness ==
    /\ jzPc = "done"
    /\ decoded.returned
    /\ \E n \in NodesIn(decoded.value) \ {decoded.value} :
          /\ Get(n, "optional") = Bool(TRUE)
          /\ Get(n, "description") = Str("B")
          /\ jsonToZod(n) = Returned("z.boolean().optional().description(\"B\")")
    /\ Get(decoded.value, "nullable") = Bool(TRUE)
    /\ Get(decoded.value, "optional") = Bool(TRUE)
    /\ Get(decoded.value, "description") = Str("A note")
    /\ EndsWith(rendered.text, ".nullable().optional().description(\"A note\")")

\* C21: re-indentation is idempotent on its own output: for every source
\* text s produced by jsonToZod (objects, arrays, enums and unions nested to
\* a bounded depth), formatZodCode(formatZodCode(s)) equals formatZodCode(s).
C21_FormatIdempotent ==
    (jzPc = "done" /\ rendered.ok)
        => /\ jsonTarget = formatZodCode(rendered.text)
           /\ formatZodCode(jsonTarget) = jsonTarget

-----------------------------------------------------------------------------
(* The App component: its five state fields and the four handlers that      *)
(* change them.                                                             *)

\* the example in the editor at start, abridged to its import, its first
\* declaration and its exported declaration
exampleZodSchema ==
    "import { z } from 'zod';\n\nconst DimensionsSchema = z.object({\n"
    \o "  width: z.number().description(\"Content width in pixels\"),\n});\n\n"
    \o "export const TikTokPostSchema = z\n  .object({ platform: z.literal(\"tiktok\") })"

\* the texts the author may put into the source editor
EditorTexts ==
    {"", " ", "z.string()", "const A = z.number();", "hello",
     "{\"type\":\"string\"}", "{\"type\":\"array\",\"items\":{\"type\":\"number\"}}",
     "{\"type\":", "null"}

\* the five fields and the handler that ran last, with the direction and
\* the source text before that handler ran
Fields ==
    [direction |-> direction, includeComments |-> includeComments,
     sourceCode |-> sourceCode, targetCode |-> targetCode, error |-> error,
     lastOp |-> lastOp,
     earlier |-> [direction |-> prior.direction, sourceCode |-> prior.sourceCode]]

AppInit ==
    /\ direction = "zod-to-json"
    /\ includeComments = TRUE
    /\ sourceCode = exampleZodSchema
    /\ targetCode = ""
    /\ error = Null
    /\ lastOp = "none"
    /\ prior = [direction |-> direction, includeComments |-> includeComments,
                sourceCode |-> sourceCode, targetCode |-> targetCode,
                error |-> error, lastOp |-> "none",
                earlier |-> [direction |-> direction, sourceCode |-> sourceCode]]
    /\ schema = NoValue /\ jsonOutput = "" /\ parsed = NoOutcome
    /\ zodCode = Threw /\ rtPc = "idle"
    /\ zodSource = "" /\ extracted = NoValue /\ exPc = "idle"

\* the zod-to-json branch of handleConvert
convertZod(text, comments) ==
    IF Trim(text) = ""
    THEN [targetCode |-> "",
          error |-> ConversionError("Please enter a Zod schema to convert")]
    ELSE shown(parseZodCode(text).value, comments)

\* the json-to-zod branch once jsonToZod returned or threw
convertRendered(out) ==
    IF out.ok THEN [targetCode |-> formatZodCode(out.text), error |-> Null]
    ELSE [targetCode |-> "",
          error |-> ConversionError("Invalid JSON: " \o TypeErrorMessage)]

\* the json-to-zod branch once parseJsonc returned or threw
convertDecoded(jsonSchema) ==
    IF jsonSchema.returned THEN convertRendered(jsonToZod(jsonSchema.value))
    ELSE [targetCode |-> "",
          error |-> ConversionError("Invalid JSON: " \o jsonSchema.error.message)]

\* what handleConvert leaves in targetCode and error
converted(dir, text, comments) ==
    IF dir = "zod-to-json" THEN convertZod(text, comments)
    ELSE convertDecoded(parseJsonc(text))

\* an error shown next to the output of the conversion before it
showsErrorOnly(outcome) ==
    /\ targetCode' = IF outcome.error = Null THEN outcome.targetCode ELSE targetCode
    /\ error' = outcome.error

\* setTargetCode and setError at the end of handleConvert
shows(outcome) ==
    /\ targetCode' = outcome.targetCode
    /\ error' = outcome.error

\* the Convert button
clickConvert ==
    /\ shows(converted(direction, sourceCode, includeComments))
    /\ lastOp' = "handleConvert"
    /\ prior' = Fields
    /\ UNCHANGED <<direction, includeComments, sourceCode>>

\* a switch of direction that leaves the source text in the editor
toggleKeepsSource ==
    /\ direction' = IF direction = "zod-to-json" THEN "json-to-zod" ELSE "zod-to-json"
    /\ targetCode' = ""
    /\ error' = Null
    /\ lastOp' = "toggleDirection"
    /\ prior' = Fields
    /\ UNCHANGED <<includeComments, sourceCode>>

toggleDirection ==
    /\ direction' = IF direction = "zod-to-json" THEN "json-to-zod" ELSE "zod-to-json"
    /\ sourceCode' = ""
    /\ targetCode' = ""
    /\ error' = Null
    /\ lastOp' = "toggleDirection"
    /\ prior' = Fields
    /\ UNCHANGED includeComments

\* onChange of the source editor
editSource ==
    /\ \E value \in EditorTexts : sourceCode' = value
    /\ lastOp' = "setSourceCode"
    /\ prior' = Fields
    /\ UNCHANGED <<direction, includeComments, targetCode, error>>

\* onChange of the checkbox, which is shown in the direction zod-to-json
setIncludeComments ==
    /\ direction = "zod-to-json"
    /\ includeComments' = ~includeComments
    /\ lastOp' = "setIncludeComments"
    /\ prior' = Fields
    /\ UNCHANGED <<direction, sourceCode, targetCode, error>>

AppFrame ==
    UNCHANGED <<schema, jsonOutput, parsed, zodCode, rtPc, rdVars,
                zodSource, extracted, exPc, jzVars, fmVars>>

InitApp == AppInit /\ ReaderIdle /\ JsonToZodIdle /\ FormatIdle

NextApp ==
    \/ clickConvert /\ AppFrame
    \/ toggleDirection /\ AppFrame
    \/ editSource /\ AppFrame
    \/ setIncludeComments /\ AppFrame

SpecApp == InitApp /\ [][NextApp]_vars

-----------------------------------------------------------------------------
(* Claims about the App component *)

\* the document is not read, or what is read is not a record to render
Malformed(jsonSchema) ==
    ~jsonSchema.returned \/ jsonSchema.value.t \in {"null", "undefined"}

\* the conversion of this text cannot succeed: the source is empty or not
\* recognised, or the document is malformed
CannotConvert(dir, text) ==
    IF dir = "zod-to-json"
    THEN Trim(text) = "" \/ ~Truthy(parseZodCode(text).value)
    ELSE Malformed(parseJsonc(text))

\* C22: in the orchestration layer, a failed conversion clears any previously
\* produced output: after handleConvert fails in either direction (empty or
\* unrecognised source, or malformed document) the error is set and
\* targetCode is empty, after it succeeds the error is null, and in every
\* state reachable by any sequence of convert, edit-source, toggle-comments
\* and toggle-direction actions, error non-null implies targetCode is empty.
C22_FailureClearsOutput ==
    /\ error # Null => targetCode = ""
    /\ (lastOp = "handleConvert" /\ CannotConvert(direction, sourceCode))
          => (error # Null /\ targetCode = "")
    /\ (lastOp = "handleConvert" /\ ~CannotConvert(direction, sourceCode))
          => (error = Null /\ targetCode # "")

C22_Witness ==
    /\ lastOp = "handleConvert"
    /\ prior.targetCode # ""
    /\ prior.error = Null
    /\ error # Null
    /\ targetCode = ""

\* C29: toggleDirection flips direction between 'zod-to-json' and
\* 'json-to-zod', sets sourceCode and targetCode to empty and error to null,
\* and leaves includeComments unchanged; editing the source text or toggling
\* includeComments changes only that field and leaves direction, targetCode
\* and error unchanged, so two toggles in a row restore the direction but not
\* the source text.
C29_HandlerFrames ==
    /\ lastOp = "toggleDirection" =>
          /\ {direction, prior.direction} = {"zod-to-json", "json-to-zod"}
          /\ sourceCode = "" /\ targetCode = "" /\ error = Null
          /\ includeComments = prior.includeComments
    /\ lastOp = "setSourceCode" =>
          /\ direction = prior.direction
          /\ includeComments = prior.includeComments
          /\ targetCode = prior.targetCode
          /\ error = prior.error
    /\ lastOp = "setIncludeComments" =>
          /\ includeComments = ~prior.includeComments
          /\ direction = prior.direction
          /\ sourceCode = prior.sourceCode
          /\ targetCode = prior.targetCode
          /\ error = prior.error
    /\ (lastOp = "toggleDirection" /\ prior.lastOp = "toggleDirection") =>
          /\ direction = prior.earlier.direction
          /\ sourceCode = ""

C29_Witness ==
    /\ lastOp = "toggleDirection"
    /\ prior.lastOp = "toggleDirection"
    /\ direction = prior.earlier.direction
    /\ prior.earlier.sourceCode # ""
    /\ sourceCode = ""

-----------------------------------------------------------------------------
(* Claims about the order of the extractor's searches *)

\* the declaration lines among the source lines whose constructor is one the
\* classification knows, with the kind of that constructor
Declarations ==
    {[line |-> "export const B = z.string().description(\"d\");",
      exported |-> TRUE, kind |-> "string"],
     [line |-> "export const D = z.boolean()", exported |-> TRUE, kind |-> "boolean"],
     [line |-> "const A = z.number();", exported |-> FALSE, kind |-> "number"],
     [line |-> "const C = z.boolean()", exported |-> FALSE, kind |-> "boolean"],
     [line |-> "const L = z.array(z.object({}))", exported |-> FALSE, kind |-> "object"]}

\* of two declarations in this order, the one the node is to come from
Chosen(first, second) ==
    IF second.exported /\ ~first.exported THEN second ELSE first

\* C23: when the source text contains both a non-exported declaration
\* const A = z.<ctor>... and an exported declaration export const B =
\* z.<ctor>... (each with a recognised constructor on the declaration line),
\* parseZodCode returns the node classified from the exported declaration B
\* regardless of which of the two appears first in the text; only when there
\* is no exported declaration is the first non-exported declaration in scan
\* order used.
C23_ExportedFirst ==
    \A first, second \in Declarations :
        (/\ exPc = "done"
         /\ zodSource = first.line \o "\n" \o second.line
         /\ ~(first.exported /\ second.exported))
            => /\ extracted.value # Null
               /\ Get(extracted.value, "type") = Str(Chosen(first, second).kind)

C23_Witness ==
    /\ exPc = "done"
    /\ zodSource = "const A = z.number();\nexport const B = z.string().description(\"d\");"
    /\ Get(extracted.value, "type") = Str("string")
    /\ Get(extracted.value, "description") = Str("d")
    /\ Includes(targetCode, "\"type\": \"string\"")

\* the classification table: token and kind, in its fixed order
KindTable ==
    <<<<"object(", "object">>, <<"array(", "array">>, <<"string()", "string">>,
      <<"number()", "number">>, <<"boolean()", "boolean">>, <<"date()", "date">>,
      <<"enum(", "enum">>, <<"literal(", "literal">>, <<"nullable()", "nullable">>,
      <<"optional()", "optional">>, <<"union(", "union">>, <<"null()", "null">>,
      <<"undefined()", "undefined">>, <<"bigint()", "bigint">>>>

\* the entries of the table whose token occurs in the text
Occurring(text) == {k \in 1..Len(KindTable) : Includes(text, KindTable[k][1])}

\* the kind of the first such entry, null when there is none
FirstKind(text) ==
    IF Occurring(text) = {} THEN Null
    ELSE Str(KindTable[FirstOf(Occurring(text))][2])

\* the text after `= z.` of a one-line declaration, up to its semicolon
RightHandSide(line) ==
    LET start == IndexFrom(line, "= z.", 1) + 4
        stop == IndexFrom(line, ";", start)
    IN  SubSeq(line, start, IF stop = 0 THEN Len(line) ELSE stop - 1)

IsDeclarationLine(line) ==
    /\ LineCount(line) = 1
    /\ \/ IndexFrom(line, "const ", 1) = 1
       \/ IndexFrom(line, "export const ", 1) = 1
    /\ Includes(line, "= z.")

\* C24: the kind given to a declaration is the first entry, in the fixed
\* order object(, array(, string(), number(), boolean(), date(), enum(,
\* literal(, nullable(), optional(), union(, null(), undefined(), bigint(),
\* whose token occurs as a substring of the declaration's right-hand side
\* (first match wins, whatever the position of the token in the text), and
\* no kind when none occurs; so a right-hand side containing both array( and
\* object( is classified object, and one containing both union( and string()
\* is classified string.
C24_FirstTableEntry ==
    (exPc = "done" /\ IsDeclarationLine(zodSource))
        => /\ identifySchemaType(RightHandSide(zodSource))
                = FirstKind(RightHandSide(zodSource))
           /\ IF FirstKind(RightHandSide(zodSource)) = Null
              THEN extracted.value = Null
              ELSE /\ extracted.value # Null
                   /\ Get(extracted.value, "type") = FirstKind(RightHandSide(zodSource))

C24_Witness ==
    /\ exPc = "done"
    /\ zodSource = "const U = z.union([z.string(), z.number()])"
    /\ RightHandSide(zodSource) = "union([z.string(), z.number()])"
    /\ Get(extracted.value, "type") = Str("string")

\* the signature tokens of the reference schema
SignatureTokens == {"TikTokPostSchema", "platform", "template_version"}

\* how many of them the text contains
SignatureCount(code) == Cardinality({t \in SignatureTokens : Includes(code, t)})

\* C25: the pre-built reference schema is returned as fallback only when no
\* declaration and no bare constructor call was recognised and the text
\* contains several (at least two) of the reference schema's signature
\* tokens; a text that contains just one such token (for example only the
\* word platform) and no recognisable schema yields UnrecognizedSchema
\* (null).
C25_SeveralTokens ==
    (exPc = "done" /\ extracted.value = extractTikTokSchema)
        => /\ ~DeclarationRecognised(exportMatch(cleanedCode(zodSource), 1))
           /\ ~DeclarationRecognised(constMatch(cleanedCode(zodSource), 1))
           /\ ~BareCallRecognised(cleanedCode(zodSource))
           /\ SignatureCount(cleanedCode(zodSource)) >= 2

\* the bare calls among the source lines, with the kind of their constructor
BareCalls ==
    {[code |-> "z.string()", kind |-> "string"],
     [code |-> "z.boolean()", kind |-> "boolean"],
     [code |-> "z.date()", kind |-> "date"]}

\* C26: when no declaration pattern matches and the source text is a bare
\* call of a recognised constructor, parseZodCode returns a node of that
\* constructor's kind for every kind of the classification table (for
\* example z.boolean() gives a boolean node, z.date() a date node,
\* z.enum([...]) an enum node), not UnrecognizedSchema.
C26_BareCallOfAnyKind ==
    \A call \in BareCalls :
        (exPc = "done" /\ zodSource = call.code)
            => /\ extracted.value # Null
               /\ Get(extracted.value, "type") = Str(call.kind)

\* C28: the description given to the root node by parseZodCode is the
\* description attached to the matched declaration itself: when the
\* declaration has no trailing .description(...) of its own but a nested
\* property on the same line has one (for example
\* const X = z.object({ a: z.string().description("A") })), or another line
\* mentions the declaration's name followed by .description(...), the root
\* node carries no description.
C28_OwnDescription ==
    (/\ exPc = "done"
     /\ zodSource = "const X = z.object({ a: z.string().description(\"A\") })")
        => /\ extracted.value # Null
           /\ Get(extracted.value, "type") = Str("object")
           /\ ~Truthy(Get(extracted.value, "description"))

-----------------------------------------------------------------------------
(* The loop of formatZodCode, one iteration at a time *)

\* source texts with brackets, braces, commas, escaped quotes and an escaped
\* backslash inside their literals, and one that closes more than it opens
FormatInputs ==
    {"z.enum([\"a,b\", \"]\"])",
     "z.string().description(\"{x}\")",
     "z.object({\n  a: z.string().description(\"say \\\"hi\\\", [ok]\")\n})",
     "z.literal(\"}\")",
     "z.array(z.enum([\"[\", \"\\\\\"]))",
     "z.union([z.string(), z.literal(\",\")])",
     "z.object({})]}",
     "z.array(z.number())"}

FormatInit ==
    /\ formatInput \in FormatInputs
    /\ formatState = FormatStart
    /\ formatPrior = FormatStart

\* one iteration of the for loop
formatIteration ==
    /\ formatState.i <= Len(formatInput)
    /\ formatState' = formatStep(formatInput, formatState)
    /\ formatPrior' = formatState
    /\ UNCHANGED formatInput

InitFormat ==
    /\ RoundTripIdle /\ ReaderIdle /\ ExtractorIdle /\ JsonToZodIdle /\ AppIdle
    /\ FormatInit

NextFormat == formatIteration /\ UNCHANGED <<rtVars, rdVars, exVars, jzVars, apVars>>

SpecFormat == InitFormat /\ [][NextFormat]_vars

-----------------------------------------------------------------------------
(* Claims about the loop of formatZodCode *)

\* the backslashes that stand directly before position q
BackslashRun(code, q) ==
    Cardinality({p \in 1..(q - 1) : \A r \in p..(q - 1) : At(code, r) = "\\"})

\* the double quotes that open or close a literal
Delimiters(code) ==
    {q \in 1..Len(code) : At(code, q) = "\"" /\ BackslashRun(code, q) % 2 = 0}

\* the character at position i lies inside a double-quoted literal
InLiteral(code, i) ==
    /\ i \notin Delimiters(code)
    /\ Cardinality({q \in Delimiters(code) : q < i}) % 2 = 1

\* C27: formatZodCode copies every character that lies inside a
\* double-quoted literal (including brackets, braces, commas and escaped
\* quotes) to the output unchanged and without inserting a newline or
\* indentation next to it, and such characters never change the nesting
\* depth counter, which itself never goes below zero.
C27_LiteralsUntouched ==
    /\ formatState.indentLevel >= 0
    /\ (formatState.i = formatPrior.i + 1 /\ InLiteral(formatInput, formatPrior.i))
          => /\ formatState.result
                  = formatPrior.result \o At(formatInput, formatPrior.i)
             /\ formatState.indentLevel = formatPrior.indentLevel
    /\ formatState.i > Len(formatInput)
          => formatState.result = formatZodCode(formatInput)

C27_Witness ==
    /\ formatInput = "z.string().description(\"{x}\")"
    /\ formatState.i > Len(formatInput)
    /\ formatState.result = formatInput
    /\ formatState.indentLevel = 0
    /\ InLiteral(formatInput, 25) /\ At(formatInput, 25) = "{"

=============================================================================
